---- MODULE Spec2Model ----
(***************************************************************************)
(* Retrieval-augmented question answering service (backend/):             *)
(* intent classification, retrieval, prompt choice, streaming             *)
(* accumulation and trimming, citation formatting, conversation context.  *)
(*                                                                         *)
(* Representation.  Answer text is a sequence of one-character strings.    *)
(* A question is a sequence of tokens (words and punctuation marks); a     *)
(* punctuation token is written directly after the word before it, words  *)
(* are separated by one blank.  A source path or URL is the sequence of    *)
(* its "/"-separated components.  Scores are hundredths (0.25 is 25).      *)
(***************************************************************************)
EXTENDS Integers, Sequences, FiniteSets, TLC

\* ------------------------------------------------------------------------
\* Characters (Python str predicates on the characters the model uses)
\* ------------------------------------------------------------------------
LowerSeq == <<"a","b","c","d","e","f","g","h","i","j","k","l","m",
              "n","o","p","q","r","s","t","u","v","w","x","y","z">>
UpperSeq == <<"A","B","C","D","E","F","G","H","I","J","K","L","M",
              "N","O","P","Q","R","S","T","U","V","W","X","Y","Z">>
Lowercase == {LowerSeq[i] : i \in 1..Len(LowerSeq)}
Uppercase == {UpperSeq[i] : i \in 1..Len(UpperSeq)}
Digits == {"0","1","2","3","4","5","6","7","8","9"}
Whitespace == {" ", "\n", "\t"}

isalnum(c) == c \in Lowercase \cup Uppercase \cup Digits
islower(c) == c \in Lowercase
isspace(c) == c \in Whitespace

\* str.lower() on one character
lower_char(c) ==
    IF c \in Uppercase
    THEN LowerSeq[CHOOSE i \in 1..Len(UpperSeq) : UpperSeq[i] = c]
    ELSE c

\* str.lower()
lower(t) == [i \in 1..Len(t) |-> lower_char(t[i])]

Min2(a, b) == IF a < b THEN a ELSE b
Max2(a, b) == IF a > b THEN a ELSE b

\* the largest element of a non-empty set of integers
MaxOf(S) == CHOOSE x \in S : \A y \in S : y <= x

\* t[:n]
Prefix(t, n) == SubSeq(t, 1, Min2(n, Len(t)))

\* t[-n:]
Suffix(t, n) == SubSeq(t, Max2(1, Len(t) - n + 1), Len(t))

\* str.endswith
endswith(t, a) == Len(a) <= Len(t) /\ SubSeq(t, Len(t) - Len(a) + 1, Len(t)) = a

\* the characters of t whose index satisfies keep, in order
Second(p) == p[2]
SelectIdx(t, keep) ==
    LET tagged == [i \in 1..Len(t) |-> <<t[i], keep[i]>>]
        sel == SelectSeq(tagged, Second)
    IN  [i \in 1..Len(sel) |-> sel[i][1]]

\* index of the first non-blank character at or after i (Len(t)+1 if none)
NextNonSpace(t, i) ==
    IF \A j \in i..Len(t) : isspace(t[j]) THEN Len(t) + 1
    ELSE CHOOSE j \in i..Len(t) :
            ~isspace(t[j]) /\ \A k \in i..(j-1) : isspace(t[k])

\* index of the last non-blank character (0 if none)
LastNonSpace(t) ==
    IF \A j \in 1..Len(t) : isspace(t[j]) THEN 0
    ELSE CHOOSE j \in 1..Len(t) :
            ~isspace(t[j]) /\ \A k \in (j+1)..Len(t) : isspace(t[k])

\* str.rstrip() and str.strip()
rstrip(t) == SubSeq(t, 1, LastNonSpace(t))
strip(t) == SubSeq(t, NextNonSpace(t, 1), LastNonSpace(t))

\* re.sub(r"\n{3,}", "\n\n", t): a newline is dropped when the two characters
\* before it are newlines too
collapse_newlines(t) ==
    SelectIdx(t, [i \in 1..Len(t) |->
        ~(t[i] = "\n" /\ i > 2 /\ t[i-1] = "\n" /\ t[i-2] = "\n")])

\* ------------------------------------------------------------------------
\* qa_utils.py
\* ------------------------------------------------------------------------
\* _ABBREV
ABBREV == { <<"m","r",".">>, <<"m","r","s",".">>, <<"m","s",".">>,
            <<"d","r",".">>, <<"p","r","o","f",".">>, <<"s","r",".">>,
            <<"j","r",".">>, <<"v","s",".">>, <<"e","t","c",".">>,
            <<"e",".","g",".">>, <<"i",".","e",".">>, <<"i","n","c",".">>,
            <<"l","t","d",".">>, <<"c","o",".">>, <<"d","e","p","t",".">>,
            <<"u","n","i","v",".">> }

\* the characters the trimming strips from the end of a cut answer
TrailingJunk == {":", ",", "("}

\* while candidate and candidate[-1] in ":,(": candidate = candidate[:-1].rstrip()
RECURSIVE strip_trailing(_)
strip_trailing(c) ==
    IF Len(c) > 0 /\ c[Len(c)] \in TrailingJunk
    THEN strip_trailing(rstrip(SubSeq(c, 1, Len(c) - 1)))
    ELSE c

\* smart_trim._is_abbrev_before; pos is the 1-based index of the punctuation
is_abbrev_before(text, pos) ==
    LET look == lower(SubSeq(text, Max2(1, pos - 8), pos))
    IN  \E a \in ABBREV : endswith(look, a)

\* str.rfind of the two-character string <<p, " ">>: 1-based index, 0 if absent
rfind_punct(t, p) ==
    LET S == {i \in 1..(Len(t) - 1) : t[i] = p /\ t[i+1] = " "}
    IN  IF S = {} THEN 0 ELSE MaxOf(S)

\* str.rfind of one character: 1-based index, 0 if absent
rfind_char(t, c) ==
    LET S == {i \in 1..Len(t) : t[i] = c}
    IN  IF S = {} THEN 0 ELSE MaxOf(S)

TAIL_WINDOW == 220

\* the loop over [". ", "! ", "? "] of smart_trim: the cut position in snippet,
\* or 0 when the loop ends without returning
RECURSIVE punct_cut(_, _, _)
punct_cut(snippet, tail, puncts) ==
    IF puncts = <<>> THEN 0
    ELSE LET p == Head(puncts)
             idx == rfind_punct(tail, p)
         IN  IF idx # 0 /\ ~(p = "." /\ is_abbrev_before(tail, idx))
             THEN Len(snippet) - Len(tail) + idx
             ELSE punct_cut(snippet, tail, Tail(puncts))

\* 0-based position pos0 > limit * 0.6
beyond_60_percent(pos0, limit) == 10 * pos0 > 6 * limit

smart_trim(t, limit) ==
    IF Len(t) <= limit THEN t
    ELSE LET snippet == Prefix(t, limit)
             tail == Suffix(snippet, TAIL_WINDOW)
             cut == punct_cut(snippet, tail, <<".", "!", "?">>)
             nl == rfind_char(snippet, "\n")
             sp == rfind_char(snippet, " ")
         IN  IF cut # 0 THEN rstrip(Prefix(snippet, cut))
             ELSE IF nl # 0 /\ beyond_60_percent(nl - 1, limit)
                  THEN strip_trailing(rstrip(Prefix(snippet, nl - 1)))
             ELSE IF sp # 0 /\ beyond_60_percent(sp - 1, limit)
                  THEN strip_trailing(rstrip(Prefix(snippet, sp - 1)))
             ELSE strip_trailing(rstrip(snippet))

\* the characters of re class [,.;:!?]
TidyPunct == {",", ".", ";", ":", "!", "?"}

\* re.sub(r"\s+([,.;:!?])", r"\1", t): a blank run directly before punctuation goes
tidy_space_before_punct(t) ==
    SelectIdx(t, [i \in 1..Len(t) |->
        ~(isspace(t[i]) /\
          LET j == NextNonSpace(t, i) IN j <= Len(t) /\ t[j] \in TidyPunct)])

\* re.sub(r"\(\s+\)", "()", t)
tidy_empty_parens(t) ==
    SelectIdx(t, [i \in 1..Len(t) |->
        ~(isspace(t[i]) /\
          (LET j == NextNonSpace(t, i) IN j <= Len(t) /\ t[j] = ")") /\
          (\E k \in 1..(i-1) : t[k] = "(" /\ \A m \in (k+1)..i : isspace(t[m])))])

\* re.sub(r"\s{2,}", " ", t): a run of two or more blanks (newlines included)
\* becomes one space
tidy_collapse_blanks(t) ==
    LET n == Len(t)
        prevsp(i) == i > 1 /\ isspace(t[i-1])
        nextsp(i) == i < n /\ isspace(t[i+1])
        repl == [i \in 1..n |->
                    IF isspace(t[i]) /\ ~prevsp(i) /\ nextsp(i) THEN " " ELSE t[i]]
    IN  SelectIdx(repl, [i \in 1..n |-> ~(isspace(t[i]) /\ prevsp(i))])

\* tidy_text on text without "*" and "_" (the two emphasis substitutions
\* match nothing there)
tidy_text(t) ==
    strip(collapse_newlines(tidy_collapse_blanks(
        tidy_empty_parens(tidy_space_before_punct(t)))))

\* clean_model_chunk on fragments without "*", "_", bullet glyphs and without
\* the boilerplate lines and disclaimer phrases (those substitutions match
\* nothing there): collapse newline runs, then strip
clean_model_chunk(t) == strip(collapse_newlines(t))

\* ------------------------------------------------------------------------
\* qa_core.py: boundary-aware accumulation and finalisation of the answer
\* ------------------------------------------------------------------------
CAP_DEFINITION == 380
CAP_ABOUT == 700
CAP_DEFAULT == 1800
CAP_ENTERTAINMENT == 2000
SOFT_OVERFLOW == 200
PREV_TOKEN_WINDOW == 10

\* re.findall(r"([A-Za-z0-9]+)$", accum[-10:]): the alphanumeric run that ends
\* the last ten characters of accum (empty if accum does not end in one)
prev_token(accum) ==
    LET w == Suffix(accum, PREV_TOKEN_WINDOW)
        S == {k \in 1..Len(w) : \A j \in k..Len(w) : isalnum(w[j])}
    IN  IF S = {} THEN <<>>
        ELSE SubSeq(w, CHOOSE k \in S : \A m \in S : k <= m, Len(w))

\* whether the loop inserts a space between accum and the fragment take
needs_space(accum, take) ==
    /\ accum # <<>>
    /\ isalnum(accum[Len(accum)])
    /\ isalnum(take[1])
    /\ ~(Len(prev_token(accum)) = 1 /\ islower(take[1]))

\* one accepted fragment: accum += (" " if needed) + take
stitch(accum, take) ==
    IF needs_space(accum, take) THEN accum \o <<" ">> \o take ELSE accum \o take

\* "if not chunk: continue" and "if not text: continue"
skipped(chunk) == chunk = <<>> \/ clean_model_chunk(chunk) = <<>>

\* take = text, without the slice of line 295
take_whole(chunk, total, max_chars) == clean_model_chunk(chunk)

\* take = text[: room + 200] with room = max_chars - total
take_of(chunk, total, max_chars) ==
    Prefix(clean_model_chunk(chunk), (max_chars - total) + SOFT_OVERFLOW)

\* the for loop over get_streaming_answer(...): the accumulator after the
\* stream chunks has been consumed, starting from accum with total counted
RECURSIVE accumulate(_, _, _, _)
accumulate(chunks, accum, total, max_chars) ==
    IF chunks = <<>> THEN accum
    ELSE IF skipped(Head(chunks))
         THEN accumulate(Tail(chunks), accum, total, max_chars)
    ELSE IF total >= max_chars THEN accum
    ELSE accumulate(Tail(chunks),
                    stitch(accum, take_of(Head(chunks), total, max_chars)),
                    total + Len(take_of(Head(chunks), total, max_chars)),
                    max_chars)

TerminalPunct == {".", "!", "?"}

\* final_text after trimming, tidying and closing punctuation
finalize(accum, max_chars) ==
    LET ft == tidy_text(smart_trim(strip(accum), max_chars))
    IN  IF ft # <<>> /\ ft[Len(ft)] \notin TerminalPunct
        THEN rstrip(strip_trailing(ft)) \o <<".">>
        ELSE ft

\* ------------------------------------------------------------------------
\* Questions as token sequences
\* ------------------------------------------------------------------------
PunctTokens == {"?", ",", ".", "!", ";"}
IsWord(w) == w \notin PunctTokens

\* the capitalised words of the vocabulary and their lower-case forms
CapitalisedWords == [Inception |-> "inception", It |-> "it"]
lower_tok(w) == IF w \in DOMAIN CapitalisedWords THEN CapitalisedWords[w] ELSE w
lower_q(q) == [i \in 1..Len(q) |-> lower_tok(q[i])]

\* the words of the vocabulary with at most two / at most three characters
Len2Words == {"hi", "ok", "yo", "is", "it", "me", "to", "a", "i", "of", "do", "up",
              "on", "in"}
Len3Words == {"hey", "sup", "how", "are", "you", "who", "the", "rao", "pdf",
              "url", "and", "can", "for", "box", "web"}
tok_len(w) == IF w \in Len2Words THEN 2 ELSE IF w \in Len3Words THEN 3 ELSE 4

\* whether the tokens p occur in ql as consecutive tokens starting at i
MatchAt(ql, p, i) ==
    i + Len(p) - 1 <= Len(ql) /\ \A k \in 1..Len(p) : ql[i + k - 1] = p[k]
Occurs(ql, p) == \E i \in 1..Len(ql) : MatchAt(ql, p, i)
StartsWith(ql, p) == MatchAt(ql, p, 1)

\* ql.startswith(p + " "): p, then a blank, so a further word follows
StartsWithThenBlank(ql, p) ==
    StartsWith(ql, p) /\ Len(ql) > Len(p) /\ IsWord(ql[Len(p) + 1])

\* ------------------------------------------------------------------------
\* intents.py
\* ------------------------------------------------------------------------
has_word(ql, word) == Occurs(ql, <<word>>)
has_phrase(ql, phrase) == Occurs(ql, phrase)

is_greeting(q) ==
    LET ql == lower_q(q)
    IN  \/ \E w \in {"hi", "hello", "hey"} : has_word(ql, w)
        \/ \E p \in {<<"good", "morning">>, <<"good", "evening">>,
                     <<"good", "afternoon">>} : has_phrase(ql, p)

is_help(q) ==
    LET ql == lower_q(q)
    IN  \/ has_word(ql, "help")
        \/ ql \in {<<"?">>, <<"how", "to">>, <<"what", "can", "you", "do">>,
                   <<"i", "need", "help">>}

AboutExclusions ==
    { <<"what", "is", "it", "about">>, <<"what", "is", "this", "about">>,
      <<"what", "is", "the", "url", "about">>,
      <<"what", "is", "this", "document", "about">>,
      <<"what", "is", "the", "document", "about">> }

is_definition_question(q) ==
    LET ql == lower_q(q)
    IN  IF StartsWithThenBlank(ql, <<"define">>) THEN TRUE
        ELSE IF StartsWithThenBlank(ql, <<"what", "is">>)
             THEN ~(\E p \in AboutExclusions : StartsWith(ql, p))
        ELSE FALSE

is_smalltalk(q) ==
    LET ql == lower_q(q)
    IN  \/ \E p \in {<<"how", "are", "you">>, <<"are", "you", "there">>,
                     <<"thank", "you">>, <<"thanks">>, <<"what's", "up">>,
                     <<"whats", "up">>} : has_phrase(ql, p)
        \/ \E w \in {"ok", "okay", "yo", "sup"} : has_word(ql, w)

AboutPatterns ==
    AboutExclusions \cup
    { <<"what", "is", "this", "file", "about">>, <<"what", "is", "it">>,
      <<"give", "me", "an", "overview">>, <<"overview">>, <<"summarize">>,
      <<"summary">> }

is_about_question(q) ==
    LET ql == lower_q(q)
    IN  \E p \in AboutPatterns : ql = p \/ StartsWithThenBlank(ql, p)

\* ------------------------------------------------------------------------
\* qa_utils.extract_name_phrase
\* ------------------------------------------------------------------------
\* the number of blank-separated parts of a question
n_parts(ql) ==
    Cardinality({i \in 1..Len(ql) : IsWord(ql[i]) \/ i = 1})

\* the name phrase of a question (<<>> when there is none)
extract_name_phrase(q) ==
    LET tl == lower_q(q)
    IN  IF StartsWithThenBlank(tl, <<"who", "is">>)
           \/ StartsWithThenBlank(tl, <<"who's">>)
        THEN SubSeq(tl, IF tl[1] = "who's" THEN 2 ELSE 3, Len(tl))
        ELSE IF 2 <= n_parts(tl) /\ n_parts(tl) <= 4 THEN tl
        ELSE <<>>

\* ------------------------------------------------------------------------
\* context.py
\* ------------------------------------------------------------------------
RECENT_TURNS == 2
RECENT_CONTEXT_CHARS == 200

\* the same function storing the turn without its sources
add_to_context_unsourced(ctx, question, context, sources) ==
    Append(ctx, [question |-> question, context |-> context, sources |-> <<>>])

\* conversation_context.append({...}); "sources" is kept as the list that
\* ",".join(sources) is built from
add_to_context(ctx, question, context, sources) ==
    Append(ctx, [question |-> question, context |-> context, sources |-> sources])

\* item['context'][:200], kept symbolically: the text and how much of it is shown
truncated(context, n) == [of |-> context, first |-> n]

\* one "Previous Q: ...\nContext: ...[:200]..." entry per turn of
\* conversation_context[-2:], in order
get_recent_context(ctx) ==
    LET recent == Suffix(ctx, RECENT_TURNS)
    IN  [i \in 1..Len(recent) |->
            [question |-> recent[i].question,
             context |-> truncated(recent[i].context, RECENT_CONTEXT_CHARS)]]

\* the same function with the list rebound to a local name instead of
\* cleared: the module's list keeps its turns
clear_rebinds_local(ctx) == ctx

clear_conversation_context(ctx) == <<>>

has_recent_context(ctx) == ctx # <<>>

\* ------------------------------------------------------------------------
\* qutils.py
\* ------------------------------------------------------------------------
DigitSeq == <<"0","1","2","3","4","5","6","7","8","9">>

\* str(pg) of a non-negative page number
RECURSIVE Str(_)
Str(n) == IF n < 10 THEN <<DigitSeq[n + 1]>>
          ELSE Str(n \div 10) \o <<DigitSeq[(n % 10) + 1]>>

\* code point order of the digit characters
DigitRank(c) == CHOOSE i \in 1..Len(DigitSeq) : DigitSeq[i] = c

\* a < b as Python compares str
RECURSIVE str_less(_, _)
str_less(a, b) ==
    IF a = <<>> THEN b # <<>>
    ELSE IF b = <<>> THEN FALSE
    ELSE IF Head(a) # Head(b) THEN DigitRank(Head(a)) < DigitRank(Head(b))
    ELSE str_less(Tail(a), Tail(b))

\* sorted(S) of a set of str
RECURSIVE sorted_strs(_)
sorted_strs(S) ==
    IF S = {} THEN <<>>
    ELSE LET m == CHOOSE x \in S : \A y \in S \ {x} : str_less(x, y)
         IN  <<m>> \o sorted_strs(S \ {m})

\* it.get("filename") or it.get("source") or "Document"
source_key(it) ==
    IF it.filename # <<>> THEN it.filename
    ELSE IF it.source # <<>> THEN it.source
    ELSE <<"Document">>

\* pages_by_source: source -> set of str(page), for the hits that carry a page
pages_by_source(hits) ==
    LET paged == {i \in 1..Len(hits) : hits[i].page # <<>>}
        keys == {source_key(hits[i]) : i \in paged}
    IN  [s \in keys |->
            {Str(hits[i].page[1]) : i \in {j \in paged : source_key(hits[j]) = s}}]

\* os.path.basename
basename(s) == s[Len(s)]

\* format_sources_with_pages.fmt: the basename and the pages as they are listed
fmt(s, pmap) ==
    LET base == basename(s)
        pgs == IF s \in DOMAIN pmap THEN pmap[s]
               ELSE IF <<base>> \in DOMAIN pmap THEN pmap[<<base>>]
               ELSE {}
    IN  [base |-> base, pages |-> sorted_strs(pgs)]

\* format_sources_with_pages: the entries that ", ".join(...) joins, in order
format_sources_with_pages(sources, pmap) ==
    [i \in 1..Len(sources) |-> fmt(sources[i], pmap)]

\* {k: v for k, v in pages_by_source(hits).items() if k in sources}
restrict_pages(pmap, sources) ==
    [s \in {k \in DOMAIN pmap : \E i \in 1..Len(sources) : sources[i] = k}
        |-> pmap[s]]

\* ------------------------------------------------------------------------
\* Stored chunks (payloads as vector_core._points_from_chunks writes them)
\* ------------------------------------------------------------------------
UPLOAD_DIR == "uploaded_files"
DocFiles == {"a.pdf", "b.pdf"}
WebUrls == {<<"http:", "", "site.org", "page">>}
ChunkOrder == <<"c1", "c2", "c3", "c4">>
ChunkIds == {ChunkOrder[i] : i \in 1..Len(ChunkOrder)}

\* metadata is merged into the payload by payload.update(meta), so a stored
\* payload carries source_type at top level and no "metadata" key; page is
\* <<>> (no page) or <<n>>
NoMetadata == [source_type |-> "", url |-> <<>>]
DocPayload(file, text) ==
    [text |-> text, filename |-> <<UPLOAD_DIR, file>>, source |-> <<UPLOAD_DIR, file>>,
     page |-> <<>>, source_type |-> "", metadata |-> NoMetadata]
WebPayload(url, text) ==
    [text |-> text, filename |-> url, source |-> url,
     page |-> <<>>, source_type |-> "web", metadata |-> NoMetadata]

Payload ==
    [c \in ChunkIds |->
        CASE c = "c1" -> DocPayload("a.pdf", <<"insulin", "dosage", "guidance">>)
          [] c = "c2" -> DocPayload("a.pdf", <<"john", "reddy", "is", "a", "doctor">>)
          [] c = "c3" -> DocPayload("b.pdf", <<"diabetes", "is", "a", "disease">>)
          [] c = "c4" -> WebPayload(<<"http:", "", "site.org", "page">>,
                                    <<"john", "smith", "site", "info">>)]

\* the chunks chunk_text/scrape_to_chunks produce for a file or a URL
ChunksOfFile(file) == {c \in ChunkIds : Payload[c].source = <<UPLOAD_DIR, file>>}
ChunksOfUrl(url) == {c \in ChunkIds : Payload[c].source = url}

\* get_embedding and the cosine similarity Qdrant computes are black boxes:
\* an embedding is one of two vectors, each with its score per chunk;
\* "zero" is np.zeros(384), which is equally far from every chunk
Embeddings == {"e1", "e2"}
Similarity ==
    [e \in Embeddings \cup {"zero"} |->
        CASE e = "e1" -> [c1 |-> 80, c2 |-> 60, c3 |-> 40, c4 |-> 50]
          [] e = "e2" -> [c1 |-> 30, c2 |-> 30, c3 |-> 70, c4 |-> 90]
          [] e = "zero" -> [c1 |-> 0, c2 |-> 0, c3 |-> 0, c4 |-> 0]]

\* ------------------------------------------------------------------------
\* sorted(..., key=score, reverse=True): stable, descending
\* ------------------------------------------------------------------------
\* the item at position i goes after every item with a larger key and after
\* the earlier items with the same key
sorted_desc(items, keys) ==
    LET n == Len(items)
        rank(i) == 1 + Cardinality({j \in 1..n :
                        \/ keys[j] > keys[i]
                        \/ (keys[j] = keys[i] /\ j < i)})
    IN  [r \in 1..n |-> items[CHOOSE i \in 1..n : rank(i) = r]]

hit_score(it) == it.score
scores_of(hits) == [i \in 1..Len(hits) |-> hit_score(hits[i])]

\* ------------------------------------------------------------------------
\* vector_core.py: search
\* ------------------------------------------------------------------------
SEARCH_K == 20

InCollection(collection) ==
    LET Member(c) == c \in collection IN SelectSeq(ChunkOrder, Member)

\* search_similar_chunks / search_web_chunks on a reachable collection: the k
\* best payloads, each with p["score"]
search_chunks(collection, emb, k) ==
    LET ids == InCollection(collection)
        hits == [i \in 1..Len(ids) |->
                    [text |-> Payload[ids[i]].text,
                     filename |-> Payload[ids[i]].filename,
                     source |-> Payload[ids[i]].source,
                     page |-> Payload[ids[i]].page,
                     source_type |-> Payload[ids[i]].source_type,
                     metadata |-> Payload[ids[i]].metadata,
                     score |-> Similarity[emb][ids[i]]]]
    IN  Prefix(sorted_desc(hits, scores_of(hits)), k)

\* ------------------------------------------------------------------------
\* qa_core.py: retrieval, re-ranking and source selection (lines 126-255)
\* ------------------------------------------------------------------------
prefer_web_by_phrase(ql) ==
    \E p \in {<<"website">>, <<"web", "site">>, <<"webpage">>, <<"link">>, <<"url">>,
              <<"according", "to", "the", "link">>, <<"on", "the", "site">>,
              <<"from", "the", "site">>} : Occurs(ql, p)

mentions_docs(ql) ==
    \E p \in {<<"document">>, <<"documents">>, <<"pdf">>, <<"pdfs">>,
              <<"uploaded", "files">>, <<"files">>} : Occurs(ql, p)

QuestionWords == {"who", "what", "which", "where", "when", "how"}

\* the multi-part regex of line 137
multi_part(ql) ==
    \/ \E i \in 1..Len(ql) : ql[i] \in QuestionWords
           /\ \E j \in (i+1)..Len(ql) : ql[j] \in {",", ";"}
    \/ \E i \in 1..Len(ql) : MatchAt(ql, <<"who", "is">>, i)
           /\ \E j \in (i+2)..(Len(ql) - 1) : ql[j] = "what" /\ IsWord(ql[j+1])
    \/ \E i \in 1..Len(ql) : MatchAt(ql, <<"what", "is">>, i)
           /\ \E j \in (i+2)..Len(ql) : ql[j] = "and"

\* src.startswith("http") or "http" in src
looks_like_url(src) == \E i \in 1..Len(src) : src[i] \in {"http:", "https:"}

\* it.get("source") or it.get("filename") or ""
source_or_filename(it) == IF it.source # <<>> THEN it.source ELSE it.filename

\* the web_only test of lines 149-159
is_web_hit(it) ==
    \/ looks_like_url(source_or_filename(it))
    \/ it.metadata.source_type = "web"
    \/ looks_like_url(it.metadata.url)

\* lines 142-161 without the "if web_only" of line 160
merged_hits_web_only(ql, doc_hits, web_hits) ==
    LET hits == sorted_desc(doc_hits \o web_hits, scores_of(doc_hits \o web_hits))
        web_only == SelectSeq(hits, is_web_hit)
    IN  IF prefer_web_by_phrase(ql) /\ ~mentions_docs(ql) /\ ~multi_part(ql)
        THEN web_only ELSE hits

\* lines 142-161: merge, sort, and the web-phrase restriction with its fallback
merged_hits(ql, doc_hits, web_hits) ==
    LET hits == sorted_desc(doc_hits \o web_hits, scores_of(doc_hits \o web_hits))
        web_only == SelectSeq(hits, is_web_hit)
    IN  IF prefer_web_by_phrase(ql) /\ ~mentions_docs(ql) /\ ~multi_part(ql)
           /\ web_only # <<>>
        THEN web_only ELSE hits

COMMON_SURNAMES == {"reddy", "kumar", "singh", "patel", "gupta", "rao"}

\* re.split(r"[^a-z0-9]+", s): the words of a token sequence
words_of(toks) == SelectSeq(toks, IsWord)

\* lines 169-171
is_surname_only(name_phrase) ==
    LET surname_only == words_of(name_phrase)
    IN  Len(surname_only) = 1 /\ surname_only[1] \in COMMON_SURNAMES

LongerThan2(w) == tok_len(w) > 2
\* [t for t in re.split(...) if len(t) > 2]
name_tokens(np) == SelectSeq(words_of(np), LongerThan2)

\* t in txt, for a word t: the vocabulary holds no word inside another word
word_in_text(t, txt) == \E i \in 1..Len(txt) : txt[i] = t

\* list.index(x, start), 1-based; 0 stands for ValueError
index_from(tokens, x, start) ==
    LET S == {i \in start..Len(tokens) : tokens[i] = x}
    IN  IF S = {} THEN 0 ELSE CHOOSE i \in S : \A j \in S : i <= j

BUMP_EXACT == 25
BUMP_TOKENS == 15
BUMP_PROXIMITY == 20
PROXIMITY_WINDOW == 5

\* lines 176-196: the score bump of one hit
bump(np, it) ==
    LET txt == it.text
        q_toks == name_tokens(np)
        tokens == words_of(txt)
        fi == index_from(tokens, q_toks[1], 1)
        li == IF fi = 0 THEN 0 ELSE index_from(tokens, q_toks[Len(q_toks)], fi)
    IN  IF Occurs(txt, np) THEN BUMP_EXACT
        ELSE (IF q_toks # <<>> /\ \A i \in 1..Len(q_toks) : word_in_text(q_toks[i], txt)
              THEN BUMP_TOKENS ELSE 0)
           + (IF Len(q_toks) >= 2 /\ fi # 0 /\ li # 0 /\ fi < li
                 /\ li - fi <= PROXIMITY_WINDOW
              THEN BUMP_PROXIMITY ELSE 0)

\* lines 174-199: each hit with its score raised by its bump
bumped(np, hits) ==
    [i \in 1..Len(hits) |->
        [hits[i] EXCEPT !.score = hits[i].score + bump(np, hits[i])]]

\* lines 173-201
boosted(np, hits) == sorted_desc(bumped(np, hits), scores_of(bumped(np, hits)))

\* lines 203-218: strict filter on the name tokens and its fallback
name_filtered(np, hits) ==
    LET toks == name_tokens(np)
        HasAll(it) == \A i \in 1..Len(toks) : word_in_text(toks[i], it.text)
        cnt(it) == Cardinality({i \in 1..Len(toks) : word_in_text(toks[i], it.text)})
        filtered == SelectSeq(hits, HasAll)
        max_cnt == MaxOf({cnt(hits[i]) : i \in 1..Len(hits)} \cup {0})
        IsMax(it) == cnt(it) = max_cnt
    IN  IF toks = <<>> THEN hits
        ELSE IF filtered # <<>> THEN filtered
        ELSE IF max_cnt > 0 THEN SelectSeq(hits, IsMax)
        ELSE hits

\* the keys of score_by_source, in insertion (first-seen) order
RECURSIVE source_order(_)
source_order(hits) ==
    IF hits = <<>> THEN <<>>
    ELSE LET before == source_order(SubSeq(hits, 1, Len(hits) - 1))
             s == source_key(hits[Len(hits)])
         IN  IF \E i \in 1..Len(before) : before[i] = s THEN before
             ELSE Append(before, s)

RECURSIVE sum_scores(_, _)
sum_scores(hits, s) ==
    IF hits = <<>> THEN 0
    ELSE (IF source_key(Head(hits)) = s THEN Head(hits).score ELSE 0)
         + sum_scores(Tail(hits), s)

\* kind_by_source[s], decided on the first hit of s (lines 226-230)
kind_of(hits, s) ==
    LET it == hits[CHOOSE i \in 1..Len(hits) :
                    source_key(hits[i]) = s
                    /\ \A j \in 1..(i-1) : source_key(hits[j]) # s]
    IN  IF it.metadata.source_type = "web" \/ looks_like_url(it.source)
        THEN "web" ELSE "doc"

\* max(candidates, key=score): the first of the best; <<>> stands for None
first_max(candidates, keys) ==
    IF candidates = <<>> THEN <<>>
    ELSE <<candidates[CHOOSE i \in 1..Len(candidates) :
              /\ \A j \in 1..Len(candidates) : keys[j] <= keys[i]
              /\ \A j \in 1..(i-1) : keys[j] < keys[i]]>>

TOP_N_NAME == 1
TOP_N_DEFAULT == 3

\* the same selection without lines 236-240: the sources by aggregate score
\* alone
select_by_score_alone(hits, top_n) ==
    Prefix(sorted_desc(source_order(hits),
                       [i \in 1..Len(source_order(hits)) |->
                           sum_scores(hits, source_order(hits)[i])]), top_n)

\* lines 232-246: top_sources
select_sources(hits, top_n) ==
    LET order == source_order(hits)
        scores(srcs) == [i \in 1..Len(srcs) |-> sum_scores(hits, srcs[i])]
        IsWebSrc(s) == kind_of(hits, s) = "web"
        IsDocSrc(s) == kind_of(hits, s) = "doc"
        top_web == first_max(SelectSeq(order, IsWebSrc),
                             scores(SelectSeq(order, IsWebSrc)))
        top_doc == first_max(SelectSeq(order, IsDocSrc),
                             scores(SelectSeq(order, IsDocSrc)))
        selected0 == top_doc \o (IF top_web # <<>> /\ top_web # top_doc
                                 THEN top_web ELSE <<>>)
        NotSelected(s) == \A i \in 1..Len(selected0) : selected0[i] # s
        remaining == SelectSeq(sorted_desc(order, scores(order)), NotSelected)
        fill == Prefix(remaining, Max2(0, top_n - Len(selected0)))
    IN  Prefix(selected0 \o fill, top_n)

\* the same assembly without the "if s in top_sources" of line 251: a section
\* for every source of the hits
assemble_context_every_source(hits, top_sources) ==
    LET secs == source_order(hits)
    IN  [i \in 1..Len(secs) |->
            [source |-> secs[i],
             texts |-> LET sel == SelectSeq(hits, LAMBDA it : source_key(it) = secs[i])
                       IN  [j \in 1..Len(sel) |-> sel[j].text]]]

\* lines 248-254: the assembled context, one section per source of src_map,
\* in the order the sources first occur in hits
assemble_context(hits, top_sources) ==
    LET Selected(s) == \E i \in 1..Len(top_sources) : top_sources[i] = s
        secs == SelectSeq(source_order(hits), Selected)
    IN  [i \in 1..Len(secs) |->
            [source |-> secs[i],
             texts |-> LET sel == SelectSeq(hits, LAMBDA it : source_key(it) = secs[i])
                       IN  [j \in 1..Len(sel) |-> sel[j].text]]]

\* ------------------------------------------------------------------------
\* gemini_client.get_streaming_answer
\* ------------------------------------------------------------------------
\* the sentence get_streaming_answer yields when the model call raises
GEMINI_APOLOGY ==
    <<"I"," ","a","p","o","l","o","g","i","z","e",","," ","b","u","t"," ","I",
      "'","m"," ","e","x","p","e","r","i","e","n","c","i","n","g"," ","s","o",
      "m","e"," ","t","e","c","h","n","i","c","a","l"," ","d","i","f","f","i",
      "c","u","l","t","i","e","s"," ","r","i","g","h","t"," ","n","o","w",".",
      " ","P","l","e","a","s","e"," ","t","r","y"," ","a","s","k","i","n","g",
      " ","y","o","u","r"," ","q","u","e","s","t","i","o","n"," ","a","g","a",
      "i","n"," ","i","n"," ","a"," ","m","o","m","e","n","t",".">>

NonEmpty(f) == f # <<>>

\* the fragments get_streaming_answer yields for an LLM stream llm:
\* llm.frags are the chunk texts the model would deliver; when llm.raises, the
\* call raises after llm.after of them were delivered.  Chunks with empty
\* text are not yielded; an exception is caught and answered by one more
\* fragment, the apology sentence
get_streaming_answer(llm) ==
    IF llm.raises
    THEN SelectSeq(Prefix(llm.frags, llm.after), NonEmpty) \o <<GEMINI_APOLOGY>>
    ELSE SelectSeq(llm.frags, NonEmpty)

\* ------------------------------------------------------------------------
\* embedding.get_embedding (the cache in front of the model is left out: the
\* model is taken to map a text to the vector the request is given)
\* ------------------------------------------------------------------------
\* model.encode raising is caught and answered by the zero vector
get_embedding(ext) == IF ext.embed_fails THEN "zero" ELSE ext.emb

\* ------------------------------------------------------------------------
\* entertainment.py
\* ------------------------------------------------------------------------
\* LAST_TITLE = None
NoTitle == <<>>

TitleEnd == {"?", ".", "!"}

\* group(1).strip().rstrip("?.! ")
RECURSIVE rstrip_title(_)
rstrip_title(toks) ==
    IF toks # <<>> /\ toks[Len(toks)] \in TitleEnd
    THEN rstrip_title(SubSeq(toks, 1, Len(toks) - 1))
    ELSE toks

FactWords == {"cast", "genre", "rating", "ratings", "director", "hero", "heroine",
              "actor", "actors", "actress", "plot", "story", "synopsis", "summary",
              "runtime", "duration", "gross", "collection"}
FactWordsPlural == {"casts", "genres", "plots", "storys", "synopsiss", "summarys"}

\* the first position where one of the three title patterns matches, as the
\* index where the title starts (0 if that pattern does not match)
FirstIn(S) == IF S = {} THEN 0 ELSE CHOOSE i \in S : \A j \in S : i <= j
pattern1_at(ql) ==
    FirstIn({i + 2 : i \in {k \in 1..(Len(ql) - 2) :
        /\ (ql[k] \in FactWords \/ (k > 1 /\ ql[k-1] = "box" /\ ql[k] = "office"))
        /\ ql[k+1] \in {"of", "for", "in"}
        /\ IsWord(ql[k+2])}})
pattern2_at(ql) ==
    FirstIn({i + 2 : i \in {k \in 1..(Len(ql) - 2) :
        /\ ql[k] \in FactWordsPlural
        /\ ql[k+1] \in {"of", "for"}
        /\ IsWord(ql[k+2])}})
pattern3_at(ql) ==
    FirstIn({i + 2 : i \in {k \in 1..(Len(ql) - 2) :
            ql[k] = "who" /\ ql[k+1] = "directed" /\ IsWord(ql[k+2])}}
        \cup {i + 3 : i \in {k \in 1..(Len(ql) - 3) :
            ql[k] = "who" /\ ql[k+1] \in {"star", "stars"} /\ ql[k+2] = "in"
            /\ IsWord(ql[k+3])}})

\* the pronoun test of _extract_title (re.IGNORECASE)
has_pronoun(ql) ==
    \/ has_word(ql, "it")
    \/ \E a \in {"this", "the"} : \E b \in {"movie", "film"} : Occurs(ql, <<a, b>>)

\* the last run of capitalised words of q (<<>> if there is none)
last_capitalised(q) ==
    LET caps == {i \in 1..Len(q) : q[i] \in DOMAIN CapitalisedWords}
        e == MaxOf(caps)
        b == CHOOSE i \in caps :
                /\ \A j \in i..e : j \in caps
                /\ (i = 1 \/ (i - 1) \notin caps)
    IN  IF caps = {} THEN <<>> ELSE SubSeq(q, b, e)

\* _extract_title; the vocabulary has no quoted titles
extract_title(q, last_title) ==
    LET ql == lower_q(q)
        about_at == FirstIn({i + 1 : i \in {k \in 1..(Len(ql) - 1) :
                        ql[k] = "about" /\ IsWord(ql[k+1])}})
    IN  IF has_pronoun(ql) /\ last_title # NoTitle THEN last_title
        ELSE IF pattern1_at(ql) # 0 THEN rstrip_title(SubSeq(q, pattern1_at(ql), Len(q)))
        ELSE IF pattern2_at(ql) # 0 THEN rstrip_title(SubSeq(q, pattern2_at(ql), Len(q)))
        ELSE IF pattern3_at(ql) # 0 THEN rstrip_title(SubSeq(q, pattern3_at(ql), Len(q)))
        ELSE IF last_capitalised(q) # <<>> THEN last_capitalised(q)
        ELSE IF about_at # 0 THEN rstrip_title(SubSeq(q, about_at, Len(q)))
        ELSE NoTitle

\* what OMDb returns for a title when it is reachable and knows the film:
\* Title and Director; every other field is "N/A" and there is no imdbID.
\* One film is known, so that _OMDB_CACHE stays far below _CACHE_MAX entries
\* and never evicts
OmdbData ==
    [inception |-> [Title |-> <<"Inception">>,
                    TitleText |-> <<"I","n","c","e","p","t","i","o","n">>,
                    Director |-> <<"N","o","l","a","n">>]]

\* the cache key of _fetch_movie: title.strip().lower(), for one-word titles
cache_key(title) == lower_tok(title[1])

\* _fetch_movie(title): the data (<<>> for None) and the cache and LAST_TITLE
\* it leaves; omdb_up says whether OMDb answers
fetch_movie(title, omdb_up, cache, last_title) ==
    LET ck == cache_key(title)
        known == Len(title) = 1 /\ ck \in DOMAIN OmdbData
    IN  IF known /\ ck \in cache
        THEN [data |-> <<OmdbData[ck]>>, cache |-> cache,
              last_title |-> OmdbData[ck].Title]
        ELSE IF known /\ omdb_up
        THEN [data |-> <<OmdbData[ck]>>, cache |-> cache \cup {ck},
              last_title |-> OmdbData[ck].Title]
        ELSE [data |-> <<>>, cache |-> cache, last_title |-> last_title]

ask_cast(ql) == \E w \in {"cast", "actor", "actors", "starring", "hero", "heroine"} :
                    has_word(ql, w)
ask_other(ql) ==
    \/ \E w \in {"genre", "rating", "ratings", "imdb", "rotten", "directed",
                 "director", "plot", "story", "synopsis", "summary",
                 "runtime", "duration", "gross", "collection"} : has_word(ql, w)
    \/ Occurs(ql, <<"how", "long">>) \/ Occurs(ql, <<"box", "office">>)

WAS_DIRECTED_BY == <<" ","w","a","s"," ","d","i","r","e","c","t","e","d"," ","b","y"," ">>

\* get_entertainment_answer: the answer text (<<>> for None), the cache and
\* LAST_TITLE afterwards.  With the OMDb data above and no TMDb cast, a
\* cast-only question has no bullets and returns None; any other question
\* is answered by the intro line
get_entertainment_answer(q, omdb_up, cache, last_title) ==
    LET ql == lower_q(q)
        t0 == extract_title(q, last_title)
        title == IF t0 = NoTitle /\ last_title # NoTitle /\ (ask_cast(ql) \/ ask_other(ql))
                 THEN last_title ELSE t0
        got == fetch_movie(title, omdb_up, cache, last_title)
    IN  IF title = NoTitle
        THEN [text |-> <<>>, cache |-> cache, last_title |-> last_title]
        ELSE IF got.data = <<>>
        THEN [text |-> <<>>, cache |-> got.cache, last_title |-> got.last_title]
        ELSE IF ask_cast(ql) /\ ~ask_other(ql)
        THEN [text |-> <<>>, cache |-> got.cache, last_title |-> got.last_title]
        ELSE [text |-> got.data[1].TitleText \o WAS_DIRECTED_BY
                        \o got.data[1].Director \o <<".">>,
              cache |-> got.cache, last_title |-> got.last_title]

\* ------------------------------------------------------------------------
\* qa_core.answer_question_stream
\* ------------------------------------------------------------------------
\* what one call yields: kind names the fragment ("nothing" when the generator
\* ends without yielding), text is the answer body of an "answer", "hybrid" or
\* "ent_answer", sources the entries of its Sources block (<<>>: no block)
Reply(kind) == [kind |-> kind, text |-> <<>>, sources |-> <<>>]
Answer(kind, text, sources) == [kind |-> kind, text |-> text, sources |-> sources]

NoCalls == [embed |-> 0, search_doc |-> 0, search_web |-> 0, generate |-> 0]
NoPrompt == [kind |-> "none", question |-> <<>>, previous |-> <<>>,
             context |-> <<>>, source |-> <<>>]

\* re.search(r"\b(ok|okay|thanks|thank you)\b.+", ql)
ack_then_more(ql) ==
    \E p \in {<<"ok">>, <<"okay">>, <<"thanks">>, <<"thank", "you">>} :
        \E i \in 1..Len(ql) : MatchAt(ql, p, i) /\ i + Len(p) - 1 < Len(ql)

\* re.fullmatch(r"(p1|p2)[.! ]*", ql)
fullmatch_then_marks(ql, phrases) ==
    \E p \in phrases :
        StartsWith(ql, p) /\ \A i \in (Len(p) + 1)..Len(ql) : ql[i] \in {".", "!"}

\* lines 26-47 with the help reply given whatever the context holds
short_circuit_any_help(q, ctx) ==
    LET ql == lower_q(q)
    IN  IF q = <<>> THEN "empty_question"
        ELSE IF is_greeting(q) THEN "greeting"
        ELSE IF is_help(q) THEN "help"
        ELSE IF is_smalltalk(q)
        THEN IF has_word(ql, "?") \/ ack_then_more(ql) THEN "continue"
             ELSE IF fullmatch_then_marks(ql, {<<"thank", "you">>, <<"thanks">>})
                  THEN "thanks"
             ELSE IF fullmatch_then_marks(ql, {<<"ok">>, <<"okay">>}) THEN "ok"
             ELSE IF fullmatch_then_marks(ql, {<<"hi">>, <<"hello">>, <<"hey">>})
                  THEN "hello"
             ELSE "continue"
        ELSE "continue"

\* lines 26-47: the reply kind of a request answered without retrieval, or
\* "continue" when the request goes on
short_circuit(q, ctx) ==
    LET ql == lower_q(q)
    IN  IF q = <<>> THEN "empty_question"
        ELSE IF is_greeting(q) THEN "greeting"
        ELSE IF is_help(q) /\ ~has_recent_context(ctx) THEN "help"
        ELSE IF is_smalltalk(q)
        THEN IF has_word(ql, "?") \/ ack_then_more(ql) THEN "continue"
             ELSE IF fullmatch_then_marks(ql, {<<"thank", "you">>, <<"thanks">>})
                  THEN "thanks"
             ELSE IF fullmatch_then_marks(ql, {<<"ok">>, <<"okay">>}) THEN "ok"
             ELSE IF fullmatch_then_marks(ql, {<<"hi">>, <<"hello">>, <<"hey">>})
                  THEN "hello"
             ELSE "continue"
        ELSE "continue"

\* lines 259-268: the prompt; ctx is conversation_context as it is there
choose_prompt(q, ctx, context, sources) ==
    IF is_about_question(q)
    THEN [kind |-> "summary", question |-> <<>>, previous |-> <<>>,
          context |-> <<>>, source |-> IF sources # <<>> THEN sources[1] ELSE <<>>]
    ELSE IF is_definition_question(q) /\ ~multi_part(lower_q(q))
    THEN [kind |-> "definition", question |-> q, previous |-> <<>>,
          context |-> <<>>, source |-> IF sources # <<>> THEN sources[1] ELSE <<>>]
    ELSE IF has_recent_context(ctx)
    THEN [kind |-> "follow_up", question |-> q, previous |-> get_recent_context(ctx),
          context |-> context, source |-> <<>>]
    ELSE [kind |-> "context", question |-> q, previous |-> <<>>,
          context |-> context, source |-> IF sources # <<>> THEN sources[1] ELSE <<>>]

\* lines 273-278
max_chars_for(q) ==
    IF is_definition_question(q) /\ ~multi_part(lower_q(q)) THEN CAP_DEFINITION
    ELSE IF is_about_question(q) THEN CAP_ABOUT
    ELSE CAP_DEFAULT

\* the result of one call: what it yields, the module state it leaves, the
\* calls it made and the prompt it built
Result(out, ctx, last_title, cache, calls, prompt) ==
    [out |-> out, ctx |-> ctx, last_title |-> last_title, cache |-> cache,
     calls |-> calls, prompt |-> prompt]

\* lines 322-324
APOLOGY == "apology"

\* calls made up to each stage of document mode
CallsToDocSearch == [NoCalls EXCEPT !.embed = 1, !.search_doc = 1]
CallsToWebSearch == [CallsToDocSearch EXCEPT !.search_web = 1]
CallsToGenerate == [CallsToWebSearch EXCEPT !.generate = 1]

\* lines 309-321: what is yielded once final_text is known
document_reply(final_text, src_block) ==
    IF final_text # <<>> THEN Answer("answer", final_text, src_block)
    ELSE Reply("nothing")

\* lines 255-321, from add_to_context on: ctx1 is conversation_context with
\* this question's turn appended
prompt_and_stream(q, ctx1, last_title, cache, ext, hits, sources, context) ==
    Result(document_reply(
               finalize(accumulate(get_streaming_answer(ext.llm), <<>>, 0,
                                   max_chars_for(q)), max_chars_for(q)),
               format_sources_with_pages(sources,
                   restrict_pages(pages_by_source(hits), sources))),
           ctx1, last_title, cache, CallsToGenerate,
           choose_prompt(q, ctx1, context, sources))

\* lines 248-255: the context of the selected sources, stored with the turn
store_turn(q, ctx, last_title, cache, ext, hits, sources, context) ==
    prompt_and_stream(q, add_to_context(ctx, q, context, sources), last_title,
                      cache, ext, hits, sources, context)

\* lines 221-254 on the re-ranked hits
select_and_answer(q, ctx, last_title, cache, ext, hits, sources) ==
    store_turn(q, ctx, last_title, cache, ext, hits, sources,
               assemble_context(hits, sources))

\* lines 173-218: the hits after the name handling, which runs when the
\* question has a name phrase
reranked(name_phrase, hits0) ==
    IF name_phrase # <<>> THEN name_filtered(name_phrase, boosted(name_phrase, hits0))
    ELSE hits0

\* lines 221-246: the sources selected from the re-ranked hits
select_top(q, ctx, last_title, cache, ext, hits, top_n) ==
    select_and_answer(q, ctx, last_title, cache, ext, hits, select_sources(hits, top_n))

\* lines 162-246 on the merged hits
rank_and_answer(q, ctx, last_title, cache, ext, hits0, name_phrase) ==
    IF hits0 = <<>>
    THEN Result(Reply("no_evidence"), ctx, last_title, cache, CallsToWebSearch, NoPrompt)
    ELSE IF name_phrase # <<>> /\ is_surname_only(name_phrase)
    THEN Result(Reply("disambiguation"), ctx, last_title, cache, CallsToWebSearch,
                NoPrompt)
    ELSE select_top(q, ctx, last_title, cache, ext, reranked(name_phrase, hits0),
                    IF name_phrase # <<>> THEN TOP_N_NAME ELSE TOP_N_DEFAULT)

\* lines 111-321: document mode.  A search that raises ends the request in
\* the except clause of line 322; an unavailable collection gives no hits
answer_documents(q, ctx, last_title, cache, doc, web, ext) ==
    IF ext.doc_search = "raise"
    THEN Result(Reply(APOLOGY), ctx, last_title, cache, CallsToDocSearch, NoPrompt)
    ELSE IF ext.web_search = "raise"
    THEN Result(Reply(APOLOGY), ctx, last_title, cache, CallsToWebSearch, NoPrompt)
    ELSE rank_and_answer(q, ctx, last_title, cache, ext,
             merged_hits(lower_q(q),
                 IF ext.doc_search = "unavailable" THEN <<>>
                 ELSE search_chunks(doc, get_embedding(ext), SEARCH_K),
                 IF ext.web_search = "unavailable" THEN <<>>
                 ELSE search_chunks(web, get_embedding(ext), SEARCH_K)),
             extract_name_phrase(q))

CallsGenerateOnly == [NoCalls EXCEPT !.generate = 1]

\* lines 68-107: the LLM fallback of entertainment mode; state is what
\* get_entertainment_answer left
entertainment_fallback(q, ctx, state, hints, final_text) ==
    LET prompt == [kind |-> "entertainment", question |-> q, previous |-> hints,
                   context |-> <<>>, source |-> <<>>]
    IN  IF final_text # <<>>
        THEN Result(Answer("ent_answer", final_text, <<>>),
                    add_to_context(ctx, q, hints, <<>>),
                    state.last_title, state.cache, CallsGenerateOnly, prompt)
        ELSE Result(Reply("ent_no_response"),
                    ctx, state.last_title, state.cache, CallsGenerateOnly, prompt)

\* lines 57-107: hybrid is what get_entertainment_answer returned and left
entertainment_reply(q, ctx, ext, hybrid, hints) ==
    IF hybrid.text # <<>>
    THEN Result(Answer("hybrid",
                       tidy_text(smart_trim(strip(hybrid.text), CAP_ENTERTAINMENT)),
                       <<>>),
                add_to_context(ctx, q, hints, <<>>),
                hybrid.last_title, hybrid.cache, NoCalls, NoPrompt)
    ELSE entertainment_fallback(q, ctx, hybrid, hints,
             finalize(accumulate(get_streaming_answer(ext.llm), <<>>, 0,
                                 CAP_ENTERTAINMENT), CAP_ENTERTAINMENT))

\* lines 50-107: entertainment mode
answer_entertainment(q, ctx, last_title, cache, ext) ==
    entertainment_reply(q, ctx, ext,
        get_entertainment_answer(q, ext.omdb_up, cache, last_title),
        IF has_recent_context(ctx) THEN get_recent_context(ctx) ELSE <<>>)

answer_question_stream(q, entertainment_enabled, ctx, last_title, cache, doc, web, ext) ==
    LET sc == short_circuit(q, ctx)
    IN  IF sc # "continue"
        THEN Result(Reply(sc), ctx, last_title, cache, NoCalls, NoPrompt)
        ELSE IF entertainment_enabled
        THEN answer_entertainment(q, ctx, last_title, cache, ext)
        ELSE answer_documents(q, ctx, last_title, cache, doc, web, ext)

\* ------------------------------------------------------------------------
\* response.py
\* ------------------------------------------------------------------------
\* the pieces of question.split("?"), as token sequences
question_marks(q) == SelectSeq([i \in 1..Len(q) |-> IF q[i] = "?" THEN i ELSE 0],
                               LAMBDA i : i # 0)
split_on_marks(q) ==
    LET marks == question_marks(q)
        from(k) == IF k = 1 THEN 1 ELSE marks[k - 1] + 1
        to(k) == IF k = Len(marks) + 1 THEN Len(q) ELSE marks[k] - 1
    IN  [k \in 1..(Len(marks) + 1) |-> SubSeq(q, from(k), to(k))]

\* len(p.split()) >= 3
HasThreeWords(p) == p # <<>> /\ n_parts(p) >= 3

\* the same function without the "else [question]" of line 11
split_without_fallback(question) ==
    [i \in 1..Len(SelectSeq(split_on_marks(question), HasThreeWords)) |->
        Append(SelectSeq(split_on_marks(question), HasThreeWords)[i], "?")]

split_compound(question) ==
    LET subs == SelectSeq(split_on_marks(question), HasThreeWords)
    IN  IF subs # <<>> THEN [i \in 1..Len(subs) |-> Append(subs[i], "?")]
        ELSE <<question>>

DATA_MARKER == <<"d", "a", "t", "a", ":", " ">>

\* chunk.replace("data: ", ""): the marker cannot overlap itself, so a
\* character goes exactly when some occurrence of the marker covers it
without_data_marker(t) ==
    LET n == Len(DATA_MARKER)
        starts == {i \in 1..(Len(t) - n + 1) : SubSeq(t, i, i + n - 1) = DATA_MARKER}
    IN  IF starts = {} THEN t
        ELSE SelectIdx(t, [j \in 1..Len(t) |->
                              ~\E i \in starts : i <= j /\ j < i + n])

\* one call of answer_question_stream as generate_streaming_response sees it:
\* the question, conversation_context before the call, what was yielded, the
\* calls made and the prompt built; yielded is what the generator yielded and
\* out what the response passed on of it
Run(q, before, r) ==
    [q |-> q, before |-> before, out |-> r.out, yielded |-> r.out,
     calls |-> r.calls, prompt |-> r.prompt]

\* lines 14-26, collect_full_answer on what one call yielded: the text before
\* SOURCES_MARKER stripped when the marker is there, and what follows it
collect_full_answer(out) ==
    [kind |-> out.kind,
     answer |-> IF out.sources # <<>> THEN strip(out.text) ELSE out.text,
     sources |-> out.sources]

\* the fragments the compound path yields: the numbered answer line, the
\* Sources block and the line feed between two entries
Fragment(line, idx, result) ==
    [line |-> line, idx |-> idx, kind |-> result.kind,
     text |-> IF line = "answer" THEN rstrip(result.answer) ELSE <<>>,
     sources |-> IF line = "sources" THEN result.sources ELSE <<>>]
BLANK == [kind |-> "blank", answer |-> <<>>, sources |-> <<>>]

\* the same lines with the Sources line yielded for every entry
entry_with_sources(idx, n, result) ==
    <<Fragment("answer", idx, result)>>
    \o <<Fragment("sources", idx, result)>>
    \o (IF idx # n THEN <<Fragment("blank", idx, BLANK)>> ELSE <<>>)

\* lines 42-48 for the idx-th of n sub-questions
entry(idx, n, result) ==
    <<Fragment("answer", idx, result)>>
    \o (IF result.sources # <<>> THEN <<Fragment("sources", idx, result)>> ELSE <<>>)
    \o (IF idx # n THEN <<Fragment("blank", idx, BLANK)>> ELSE <<>>)

RECURSIVE entries_from(_, _)
\* lines 40-48: the entries of the calls from the idx-th on
entries_from(idx, runs) ==
    IF idx > Len(runs) THEN <<>>
    ELSE entry(idx, Len(runs), collect_full_answer(runs[idx].yielded))
         \o entries_from(idx + 1, runs)

\* lines 39-48: the sub-questions in order, each answered on the state the
\* one before left
RECURSIVE answer_each(_, _, _, _, _, _, _, _)
\* the call for the first of subs, r, and then the rest on the state r left
answer_rest(subs, entertainment_enabled, ctx, doc, web, ext, r) ==
    LET rest == answer_each(Tail(subs), entertainment_enabled, r.ctx,
                            r.last_title, r.cache, doc, web, ext)
    IN  [rest EXCEPT !.runs = <<Run(Head(subs), ctx, r)>> \o rest.runs]

answer_each(subs, entertainment_enabled, ctx, last_title, cache, doc, web, ext) ==
    IF subs = <<>>
    THEN [runs |-> <<>>, ctx |-> ctx, last_title |-> last_title, cache |-> cache]
    ELSE answer_rest(subs, entertainment_enabled, ctx, doc, web, ext,
             answer_question_stream(Head(subs), entertainment_enabled, ctx,
                                    last_title, cache, doc, web, ext))

\* lines 32-36: the single path; r is what answer_question_stream did, and
\* the one yielded chunk loses every "data: "
single_response(question, ctx, r) ==
    [compound |-> FALSE,
     runs |-> <<[Run(question, ctx, r) EXCEPT
                    !.out.text = without_data_marker(r.out.text)]>>,
     body |-> IF r.out.kind = "nothing" THEN <<>>
              ELSE <<[line |-> "chunk", idx |-> 0, kind |-> r.out.kind,
                      text |-> without_data_marker(r.out.text),
                      sources |-> r.out.sources]>>,
     ctx |-> r.ctx, last_title |-> r.last_title, cache |-> r.cache]

\* lines 39-48: the compound path
compound_response(each) ==
    [compound |-> TRUE, runs |-> each.runs, body |-> entries_from(1, each.runs),
     ctx |-> each.ctx, last_title |-> each.last_title, cache |-> each.cache]

\* generate_streaming_response: whether the compound path was taken, the calls
\* of answer_question_stream in order and the module state afterwards
generate_streaming_response(question, entertainment_enabled, ctx, last_title, cache, doc, web, ext) ==
    IF Len(split_compound(question)) <= 1
    THEN single_response(question, ctx,
             answer_question_stream(question, entertainment_enabled, ctx,
                                    last_title, cache, doc, web, ext))
    ELSE compound_response(
             answer_each(split_compound(question), entertainment_enabled, ctx,
                         last_title, cache, doc, web, ext))

\* ------------------------------------------------------------------------
\* The service: module state, stores and the HTTP handlers of main.py
\* ------------------------------------------------------------------------
VARIABLES
    conversation_context,   \* context.conversation_context
    LAST_TITLE,             \* entertainment.LAST_TITLE
    OMDB_CACHE,             \* entertainment._OMDB_CACHE (its keys)
    upload_dir,             \* the files in Config.UPLOAD_DIR
    doc_collection,         \* the chunks in the Qdrant document collection
    web_collection,         \* the chunks in the Qdrant web collection
    background_tasks,       \* _background_ingest tasks accepted and not yet run
    last,                   \* the last handler that ran and what it returned
    stream,                 \* one run of the accumulation loop of qa_core
    cite,                   \* one call of the citation formatter of qutils
    probe,                  \* one call of a pure function of the pipeline
    inflight                \* the /ask generators running in the threadpool

session == <<conversation_context, LAST_TITLE, OMDB_CACHE>>
stores == <<upload_dir, doc_collection, web_collection, background_tasks>>
bench == <<stream, cite, probe, inflight>>
vars == <<conversation_context, LAST_TITLE, OMDB_CACHE, upload_dir, doc_collection,
          web_collection, background_tasks, last, stream, cite, probe, inflight>>

\* bounds of the exploration: requests are accepted while the context holds
\* fewer than MaxTurns turns, uploads while fewer than MaxPending ingest
\* tasks wait
MaxTurns == 1
MaxPending == 1

MAX_FILES == 3

\* the LLM streams a request can meet
F1 == <<"D","i","a","b","e","t","e","s"," ","i","s">>
F2 == <<" ","a"," ","d","i","s","e","a","s","e",".">>
F3 == <<"R","a","w"," ","d","a","t","a",":"," ","5",".">>
LlmAnswers == [frags |-> <<F1, F2>>, raises |-> FALSE, after |-> 0]
LlmSilent == [frags |-> <<>>, raises |-> FALSE, after |-> 0]
LlmBreaks == [frags |-> <<F1, F2>>, raises |-> TRUE, after |-> 1]
LlmDown == [frags |-> <<F1, F2>>, raises |-> TRUE, after |-> 0]
\* an answer that has the characters "data: " in it
LlmQuotesData == [frags |-> <<F3>>, raises |-> FALSE, after |-> 0]

\* what the services outside do during one request: the query embedding (or
\* the encoder failing), each Qdrant collection answering, raising or being
\* unavailable, the LLM stream, and OMDb answering or not
Nominal ==
    [emb |-> "e1", embed_fails |-> FALSE, doc_search |-> "ok", web_search |-> "ok",
     llm |-> LlmAnswers, omdb_up |-> TRUE]
\* the requests of the exploration: every question with the services up,
\* the last single one also with the encoder failing, either search raising
\* and the LLM call breaking after its first chunk or before any
Questions ==
    {<<>>, <<"hi">>, <<"help">>, <<"thanks">>, <<"thanks", "!">>,
     <<"how", "are", "you">>, <<"who", "is", "reddy">>,
     <<"who", "is", "john", "reddy">>, <<"what", "is", "diabetes">>,
     <<"tell", "me", "the", "insulin", "dosage", "guidance">>,
     <<"what", "is", "diabetes", "?", "who", "is", "reddy", "?">>}
ProbeQuestions ==
    {<<"tell", "me", "the", "insulin", "dosage", "guidance">>}
Faults ==
    {[Nominal EXCEPT !.embed_fails = TRUE],
     [Nominal EXCEPT !.doc_search = "raise"],
     [Nominal EXCEPT !.web_search = "raise"],
     [Nominal EXCEPT !.llm = LlmBreaks],
     [Nominal EXCEPT !.llm = LlmDown]}
Requests ==
    {[question |-> q, ext |-> Nominal] : q \in Questions}
    \cup {[question |-> q, ext |-> e] : q \in ProbeQuestions, e \in Faults}
    \cup {[question |-> q, ext |-> [Nominal EXCEPT !.llm = LlmQuotesData]] :
              q \in ProbeQuestions}
EntertainmentRequests ==
    {[question |-> <<"who", "directed", "Inception", "?">>, ext |-> Nominal],
     [question |-> <<"who", "directed", "Inception", "?">>,
      ext |-> [Nominal EXCEPT !.omdb_up = FALSE]],
     [question |-> <<"who", "directed", "it">>, ext |-> Nominal]}

\* what a handler leaves in last: its name, whether it ran to its return
\* statement, the HTTP status, the number of turns the context held when the
\* handler started, and for /ask the request and the calls of
\* answer_question_stream it led to
Returned(op, completed, status) ==
    [op |-> op, completed |-> completed, status |-> status,
     turns_before |-> Len(conversation_context),
     question |-> <<>>, entertainment_enabled |-> FALSE, ext |-> Nominal,
     compound |-> FALSE, runs |-> <<>>, body |-> <<>>,
     follows_new_session |-> FALSE]

\* the benches are idle while the service runs
StreamIdle == [pc |-> "idle", max_chars |-> 0, chunks |-> <<>>, accum |-> <<>>,
               total |-> 0, final_text |-> <<>>]
CiteIdle == [pc |-> "idle", hits |-> <<>>, sources |-> <<>>, out |-> <<>>]
ProbeIdle == [pc |-> "idle"]
NoneInFlight == <<>>

Init ==
    /\ conversation_context = <<>>
    /\ LAST_TITLE = NoTitle
    /\ OMDB_CACHE = {}
    /\ upload_dir = {}
    /\ doc_collection = {}
    /\ web_collection = {}
    /\ background_tasks = <<>>
    /\ last = Returned("start", TRUE, 200)
    /\ stream = StreamIdle
    /\ cite = CiteIdle
    /\ probe = ProbeIdle
    /\ inflight = NoneInFlight

Union(F) == UNION F

\* main.upload_files: the limit on the number of files, then save each file
\* and hand the saved names to one background task.  A file is uploaded anew
\* only when the store holds none of its chunks, so that a collection holds
\* each chunk once
upload_files ==
    \E files \in SUBSET DocFiles \ {{}} :
        /\ Len(background_tasks) < MaxPending
        /\ IF Cardinality(upload_dir) + Cardinality(files) > MAX_FILES
           THEN /\ last' = Returned("upload_files", FALSE, 400)
                /\ UNCHANGED <<session, stores, bench>>
           ELSE /\ \A f \in files : ChunksOfFile(f) \cap doc_collection = {}
                /\ upload_dir' = upload_dir \cup files
                /\ background_tasks' = Append(background_tasks, files)
                /\ last' = Returned("upload_files", TRUE, 202)
                /\ UNCHANGED <<session, doc_collection, web_collection, bench>>

\* main._background_ingest: chunk the files that are still on disk and save
\* the chunks (the store is taken to accept them)
background_ingest ==
    \E i \in 1..Len(background_tasks) :
        LET task == background_tasks[i]
            all_chunks == Union({ChunksOfFile(f) : f \in task \cap upload_dir})
        IN  /\ doc_collection' = doc_collection \cup all_chunks
            /\ background_tasks' = SubSeq(background_tasks, 1, i - 1)
                                   \o SubSeq(background_tasks, i + 1,
                                             Len(background_tasks))
            /\ last' = Returned("background_ingest", TRUE, 0)
            /\ UNCHANGED <<session, upload_dir, web_collection, bench>>

\* main.ingest_url: scrape and store (the page is taken to be reachable and
\* the store to accept its chunks); a page is ingested anew only when the
\* store holds none of its chunks
ingest_url ==
    \E url \in WebUrls :
        /\ ChunksOfUrl(url) \cap web_collection = {}
        /\ web_collection' = web_collection \cup ChunksOfUrl(url)
        /\ last' = Returned("ingest_url", TRUE, 200)
        /\ UNCHANGED <<session, upload_dir, doc_collection, background_tasks, bench>>

\* main.delete_web_source_endpoint
delete_web_source_endpoint ==
    \E url \in WebUrls :
        /\ web_collection' = web_collection \ ChunksOfUrl(url)
        /\ last' = Returned("delete_web_source", TRUE, 200)
        /\ UNCHANGED <<session, upload_dir, doc_collection, background_tasks, bench>>

\* vector_core.delete_chunks_for_file on a reachable store: the filter on
\* source matches str(Config.UPLOAD_DIR / filename)
delete_chunks_for_file(collection, filename) == collection \ ChunksOfFile(filename)

\* main.delete_file: cleanup_file may raise (the unlink of a locked file), and
\* then the handler ends there with nothing else done
delete_file ==
    \E filename \in DocFiles, unlinked \in BOOLEAN :
        IF filename \in upload_dir /\ ~unlinked
        THEN /\ last' = Returned("delete_file", FALSE, 500)
             /\ UNCHANGED <<session, stores, bench>>
        ELSE /\ upload_dir' = upload_dir \ {filename}
             /\ doc_collection' = delete_chunks_for_file(doc_collection, filename)
             /\ conversation_context' = clear_conversation_context(conversation_context)
             /\ last' = Returned("delete_file", TRUE, 200)
             /\ UNCHANGED <<LAST_TITLE, OMDB_CACHE, web_collection, background_tasks,
                            bench>>

\* vector_core.clear_all_chunks: drops and recreates the document collection;
\* an error is swallowed and leaves the collection as it is
clear_all_chunks(collection, store_ok) == IF store_ok THEN {} ELSE collection

\* file_utils.clear_directory with no file locked
clear_directory(directory) == {}

\* main.clear_all
clear_all ==
    \E store_ok \in BOOLEAN :
        /\ upload_dir' = clear_directory(upload_dir)
        /\ doc_collection' = clear_all_chunks(doc_collection, store_ok)
        /\ conversation_context' = clear_conversation_context(conversation_context)
        /\ last' = Returned("clear_all", TRUE, 200)
        /\ UNCHANGED <<LAST_TITLE, OMDB_CACHE, web_collection, background_tasks, bench>>

\* main.new_session
new_session ==
    /\ conversation_context' = clear_conversation_context(conversation_context)
    /\ last' = Returned("new_session", TRUE, 200)
    /\ UNCHANGED <<LAST_TITLE, OMDB_CACHE, stores, bench>>

\* vector_core.has_web_content
has_web_content(web, ext) ==
    IF ext.web_search = "unavailable" THEN FALSE
    ELSE IF ext.web_search = "raise" THEN TRUE
    ELSE web # {}

\* main.ask, lines 227-247: the gate
allowed(question, entertainment_enabled, ext) ==
    \/ is_greeting(question) \/ is_help(question) \/ is_smalltalk(question)
    \/ entertainment_enabled
    \/ upload_dir # {}
    \/ has_web_content(web_collection, ext)

\* main.ask, lines 255-258: g is what generate_streaming_response did
streamed(question, entertainment_enabled, ext, g) ==
    /\ last' = [op |-> "ask", completed |-> TRUE, status |-> 200,
                turns_before |-> Len(conversation_context),
                question |-> question,
                entertainment_enabled |-> entertainment_enabled,
                ext |-> ext, compound |-> g.compound, runs |-> g.runs,
                body |-> g.body,
                follows_new_session |-> last.op = "new_session"]
    /\ conversation_context' = g.ctx
    /\ LAST_TITLE' = g.last_title
    /\ OMDB_CACHE' = g.cache
    /\ UNCHANGED <<stores, bench>>

\* main.ask for a request whose ent_on is entertainment_enabled
ask_handler(question, entertainment_enabled, ext, max_turns) ==
    /\ Len(conversation_context) < max_turns
    /\ IF ~allowed(question, entertainment_enabled, ext)
       THEN /\ last' = [Returned("ask", FALSE, 400) EXCEPT
                           !.question = question, !.ext = ext]
            /\ UNCHANGED <<session, stores, bench>>
       ELSE streamed(question, entertainment_enabled, ext,
                generate_streaming_response(question, entertainment_enabled,
                    conversation_context, LAST_TITLE, OMDB_CACHE,
                    doc_collection, web_collection, ext))

\* POST /ask: QuestionRequest carries the question alone, so ent_on is False
ask == \E req \in Requests : ask_handler(req.question, FALSE, req.ext, MaxTurns)

\* the same handler reached with entertainment_enabled set
ask_entertainment ==
    \E req \in EntertainmentRequests :
        ask_handler(req.question, TRUE, req.ext, MaxTurns)

Next ==
    \/ upload_files
    \/ background_ingest
    \/ ingest_url
    \/ delete_web_source_endpoint
    \/ delete_file
    \/ clear_all
    \/ new_session
    \/ ask
    \/ ask_entertainment

Spec == Init /\ [][Next]_vars

\* ------------------------------------------------------------------------
\* A long conversation: the service restarted over stores that already hold
\* every document and page, then only /ask and /new-session
\* ------------------------------------------------------------------------
ConversationTurns == 6

ConversationRequests ==
    {[question |-> q, ext |-> Nominal] :
        q \in {<<"help">>, <<"what", "is", "diabetes">>,
               <<"tell", "me", "the", "insulin", "dosage", "guidance">>}}

InitConversation ==
    /\ conversation_context = <<>>
    /\ LAST_TITLE = NoTitle
    /\ OMDB_CACHE = {}
    /\ upload_dir = DocFiles
    /\ doc_collection = Union({ChunksOfFile(f) : f \in DocFiles})
    /\ web_collection = Union({ChunksOfUrl(u) : u \in WebUrls})
    /\ background_tasks = <<>>
    /\ last = Returned("start", TRUE, 200)
    /\ stream = StreamIdle
    /\ cite = CiteIdle
    /\ probe = ProbeIdle
    /\ inflight = NoneInFlight

converse ==
    \E req \in ConversationRequests :
        ask_handler(req.question, FALSE, req.ext, ConversationTurns)

NextConversation == converse \/ new_session

SpecConversation == InitConversation /\ [][NextConversation]_vars

\* ------------------------------------------------------------------------
\* The accumulation loop of qa_core (lines 283-315) on its own, one
\* iteration at a time, over streams of up to MaxChunks chunks
\* ------------------------------------------------------------------------
MaxChunks == 2

\* p repeated n times
Rep(p, n) == [i \in 1..(n * Len(p)) |-> p[((i - 1) % Len(p)) + 1]]

StreamCaps == {CAP_DEFINITION, CAP_ABOUT, CAP_DEFAULT, CAP_ENTERTAINMENT}
StreamChunks ==
    {<<>>, F1, F2,
     Rep(<<"a">>, CAP_DEFINITION),
     Rep(<<"a">>, CAP_DEFAULT),
     Rep(<<"a">>, CAP_ENTERTAINMENT + SOFT_OVERFLOW + 1),
     Rep(<<"a", "b", ".", " ">>, CAP_DEFINITION)}
Streams == UNION {[1..n -> StreamChunks] : n \in 0..MaxChunks}

InitStream ==
    /\ conversation_context = <<>>
    /\ LAST_TITLE = NoTitle
    /\ OMDB_CACHE = {}
    /\ upload_dir = {}
    /\ doc_collection = {}
    /\ web_collection = {}
    /\ background_tasks = <<>>
    /\ last = Returned("start", TRUE, 200)
    /\ cite = CiteIdle
    /\ probe = ProbeIdle
    /\ inflight = NoneInFlight
    /\ \E cap \in StreamCaps, chunks \in Streams :
           stream = [pc |-> "loop", max_chars |-> cap, chunks |-> chunks,
                     accum |-> <<>>, total |-> 0, final_text |-> <<>>]

\* lines 285-307: one iteration of the for loop
stream_chunk ==
    /\ stream.pc = "loop"
    /\ stream.chunks # <<>>
    /\ stream' =
          IF skipped(Head(stream.chunks))
          THEN [stream EXCEPT !.chunks = Tail(@)]
          ELSE IF stream.total >= stream.max_chars
          THEN [stream EXCEPT !.pc = "trim"]
          ELSE [stream EXCEPT
                  !.accum = stitch(@, take_of(Head(stream.chunks), stream.total,
                                              stream.max_chars)),
                  !.total = @ + Len(take_of(Head(stream.chunks), stream.total,
                                            stream.max_chars)),
                  !.chunks = Tail(@)]
    /\ UNCHANGED <<session, stores, last, cite, probe, inflight>>

\* the generator is exhausted
stream_end ==
    /\ stream.pc = "loop"
    /\ stream.chunks = <<>>
    /\ stream' = [stream EXCEPT !.pc = "trim"]
    /\ UNCHANGED <<session, stores, last, cite, probe, inflight>>

\* lines 309-315
stream_finalize ==
    /\ stream.pc = "trim"
    /\ stream' = [stream EXCEPT !.pc = "done",
                                !.final_text = finalize(stream.accum, stream.max_chars)]
    /\ UNCHANGED <<session, stores, last, cite, probe, inflight>>

NextStream == stream_chunk \/ stream_end \/ stream_finalize

SpecStream == InitStream /\ [][NextStream]_vars

\* ------------------------------------------------------------------------
\* The citation formatter of qutils on its own, as line 319 of qa_core calls
\* it, over up to MaxHits hits of two sources
\* ------------------------------------------------------------------------
MaxHits == 3

CiteDoc == <<UPLOAD_DIR, "a.pdf">>
CiteWeb == <<"http:", "", "site.org", "page">>
CitePages == {<<>>, <<2>>, <<10>>}
CiteHits ==
    {[filename |-> CiteDoc, source |-> CiteDoc, page |-> pg] : pg \in CitePages}
    \cup {[filename |-> <<>>, source |-> CiteWeb, page |-> pg] : pg \in CitePages}
CiteSelections == {<<CiteDoc>>, <<CiteWeb>>, <<CiteDoc, CiteWeb>>, <<CiteWeb, CiteDoc>>}

InitCite ==
    /\ conversation_context = <<>>
    /\ LAST_TITLE = NoTitle
    /\ OMDB_CACHE = {}
    /\ upload_dir = {}
    /\ doc_collection = {}
    /\ web_collection = {}
    /\ background_tasks = <<>>
    /\ last = Returned("start", TRUE, 200)
    /\ stream = StreamIdle
    /\ probe = ProbeIdle
    /\ inflight = NoneInFlight
    /\ \E hits \in UNION {[1..n -> CiteHits] : n \in 0..MaxHits},
          sources \in CiteSelections :
           cite = [pc |-> "ready", hits |-> hits, sources |-> sources, out |-> <<>>]

\* format_sources_with_pages(sources, {k: v for k, v in
\* pages_by_source(hits).items() if k in sources})
format_citations ==
    /\ cite.pc = "ready"
    /\ cite' = [cite EXCEPT !.pc = "done",
                            !.out = format_sources_with_pages(cite.sources,
                                        restrict_pages(pages_by_source(cite.hits),
                                                       cite.sources))]
    /\ UNCHANGED <<session, stores, last, stream, probe, inflight>>

NextCite == format_citations

SpecCite == InitCite /\ [][NextCite]_vars

\* ------------------------------------------------------------------------
\* Properties of the service
\* ------------------------------------------------------------------------
\* the calls of answer_question_stream made by the last /ask that streamed
LastRuns == IF last.op = "ask" /\ last.completed THEN last.runs ELSE <<>>

CannedKinds == {"greeting", "help", "thanks", "ok", "hello"}
TaggedCanned(r) ==
    \/ is_greeting(r.q)
    \/ is_smalltalk(r.q)
    \/ is_help(r.q) /\ r.before = <<>>

\* C1: a question tagged greeting, smalltalk or help (help while the context
\* is empty) gets a canned reply, and the call makes no embedding, no search
\* of either collection and no generation
C1_CannedWithoutRetrieval ==
    \A i \in 1..Len(LastRuns) :
        TaggedCanned(LastRuns[i]) =>
            /\ LastRuns[i].out.kind \in CannedKinds
            /\ LastRuns[i].calls = NoCalls

\* a lone common surname, or "who is" followed by one
SurnameQuestion(q) ==
    \E s \in COMMON_SURNAMES :
        words_of(lower_q(q)) \in {<<s>>, <<"who", "is", s>>}

\* C2: a question that is one common surname, or "who is <surname>", is
\* answered by the disambiguation request without an embedding call and
\* without a vector search, whatever the collections hold
C2_SurnameSkipsRetrieval ==
    \A i \in 1..Len(LastRuns) :
        SurnameQuestion(LastRuns[i].q) =>
            /\ LastRuns[i].out.kind = "disambiguation"
            /\ LastRuns[i].calls.embed = 0
            /\ LastRuns[i].calls.search_doc = 0
            /\ LastRuns[i].calls.search_web = 0

\* a call of the request met a service that raises
RaisedDuring(r, ext) ==
    \/ ext.embed_fails /\ r.calls.embed > 0
    \/ ext.doc_search = "raise" /\ r.calls.search_doc > 0
    \/ ext.web_search = "raise" /\ r.calls.search_web > 0
    \/ ext.llm.raises /\ r.calls.generate > 0

\* C3: when the embedding call, a vector search or the LLM stream raises
\* during a request, the whole response is the single apology sentence, with
\* no answer text and no Sources block
C3_FailureYieldsOnlyApology ==
    \A i \in 1..Len(LastRuns) :
        RaisedDuring(LastRuns[i], last.ext) => LastRuns[i].out = Reply(APOLOGY)

\* C4: a default-intent question gets the follow-up prompt exactly when the
\* context held a turn before the request, and the previous context of a
\* follow-up prompt is that of the earlier turns only
C4_FollowUpOnlyAfterEarlierTurn ==
    \A i \in 1..Len(LastRuns) :
        LastRuns[i].prompt.kind \in {"follow_up", "context"} =>
            /\ LastRuns[i].prompt.kind = "follow_up" <=> LastRuns[i].before # <<>>
            /\ LastRuns[i].prompt.kind = "follow_up" =>
                   LastRuns[i].prompt.previous = get_recent_context(LastRuns[i].before)

\* the window ask.py keeps: "Keep only last 5 interactions"
MAX_CONTEXT_TURNS == 5

\* C5: after any sequence of ask requests the context holds at most five
\* turns, the oldest turn leaving when one is added to a full window
C5_ContextAtMostFiveTurns == Len(conversation_context) <= MAX_CONTEXT_TURNS

ClearingHandlers == {"new_session", "clear_all", "delete_file"}

\* C6: right after new-session, clear-all or delete-file completes, the
\* context is empty and has_recent_context() is false, whatever was asked
\* before
C6_ContextEmptyAfterReset ==
    (last.op \in ClearingHandlers /\ last.completed) =>
        /\ conversation_context = <<>>
        /\ ~has_recent_context(conversation_context)

\* C6 happens: a handler that clears completed on a context that held a turn
C6_ResetAfterTurns ==
    /\ last.op \in ClearingHandlers
    /\ last.completed
    /\ last.turns_before > 0

\* C7: after clear-all completes no chunk is left in the document collection
\* or in the web collection, so the next ask finds no hit in either
C7_ClearAllEmptiesBothCollections ==
    (last.op = "clear_all" /\ last.completed) =>
        /\ doc_collection = {}
        /\ web_collection = {}
        /\ search_chunks(doc_collection, Nominal.emb, SEARCH_K) = <<>>
        /\ search_chunks(web_collection, Nominal.emb, SEARCH_K) = <<>>

\* C8: the answer to a question asked right after new-session is the answer
\* a fresh process gives to it over the same collections and with the same
\* retrieval and generation results: nothing asked before the reset shows
C8_NoLeakAcrossNewSession ==
    (last.op = "ask" /\ last.completed /\ last.follows_new_session) =>
        last.runs = generate_streaming_response(last.question,
                        last.entertainment_enabled, <<>>, NoTitle, {},
                        doc_collection, web_collection, last.ext).runs

\* ------------------------------------------------------------------------
\* Properties of the accumulation loop and of the citation formatter
\* ------------------------------------------------------------------------
\* C9: for every fragment stream and each cap (380, 700, 1800, 2000) the
\* finalized answer body is at most cap characters long and ends in ".",
\* "!" or "?"
C9_BodyWithinCapAndClosed ==
    (stream.pc = "done" /\ stream.final_text # <<>>) =>
        /\ Len(stream.final_text) <= stream.max_chars
        /\ stream.final_text[Len(stream.final_text)] \in TerminalPunct

\* the page numbers recorded on the hits of source s
pages_recorded(hits, s) ==
    {hits[j].page[1] :
        j \in {k \in 1..Len(hits) : source_key(hits[k]) = s /\ hits[k].page # <<>>}}

\* the page numbers of P written in ascending order of page
RECURSIVE ascending_pages(_)
ascending_pages(P) ==
    IF P = {} THEN <<>>
    ELSE LET m == CHOOSE x \in P : \A y \in P : x <= y
         IN  <<Str(m)>> \o ascending_pages(P \ {m})

\* C10: the formatter gives one entry per selected source, in selection
\* order; an entry is the basename followed by each page recorded on that
\* source's hits exactly once in ascending page order, and the basename alone
\* when no page was recorded
C10_PagesOnceAscending ==
    cite.pc = "done" =>
        /\ Len(cite.out) = Len(cite.sources)
        /\ \A i \in 1..Len(cite.sources) :
              /\ cite.out[i].base = basename(cite.sources[i])
              /\ cite.out[i].pages =
                    ascending_pages(pages_recorded(cite.hits, cite.sources[i]))

\* ------------------------------------------------------------------------
\* Source selection (qa_core lines 220-246) on its own, for a query without
\* a name phrase, over up to MaxSelectHits hits of three files and one page
\* ------------------------------------------------------------------------
MaxSelectHits == 4

\* a payload as a search returns it, with p["score"]
scored(p, score) ==
    [text |-> p.text, filename |-> p.filename, source |-> p.source, page |-> p.page,
     source_type |-> p.source_type, metadata |-> p.metadata, score |-> score]

SelectPayloads ==
    {DocPayload(f, <<"text">>) : f \in {"a.pdf", "b.pdf", "c.pdf"}}
    \cup {WebPayload(u, <<"text">>) : u \in WebUrls}
SelectScores == {30, 50}
SelectHits == {scored(p, sc) : p \in SelectPayloads, sc \in SelectScores}

\* line 143 leaves the hits sorted by score
InitSelect ==
    /\ conversation_context = <<>>
    /\ LAST_TITLE = NoTitle
    /\ OMDB_CACHE = {}
    /\ upload_dir = {}
    /\ doc_collection = {}
    /\ web_collection = {}
    /\ background_tasks = <<>>
    /\ last = Returned("start", TRUE, 200)
    /\ stream = StreamIdle
    /\ cite = CiteIdle
    /\ inflight = NoneInFlight
    /\ \E hits \in UNION {[1..n -> SelectHits] : n \in 0..MaxSelectHits} :
           probe = [pc |-> "ready",
                    hits |-> sorted_desc(hits, scores_of(hits)), out |-> <<>>]

\* lines 220-246 with top_n = 3
select_top_sources ==
    /\ probe.pc = "ready"
    /\ probe' = [probe EXCEPT !.pc = "done",
                              !.out = select_sources(probe.hits, TOP_N_DEFAULT)]
    /\ UNCHANGED <<session, stores, last, stream, cite, inflight>>

NextSelect == select_top_sources

SpecSelect == InitSelect /\ [][NextSelect]_vars

\* the distinct sources of the probed hits, of one kind
SourcesOfKind(kind) ==
    {s \in {source_key(probe.hits[i]) : i \in 1..Len(probe.hits)} :
        kind_of(probe.hits, s) = kind}
\* the selection holds a source of the kind whose aggregate score no other
\* source of the kind exceeds
HoldsTopOf(kind) ==
    \E i \in 1..Len(probe.out) :
        /\ probe.out[i] \in SourcesOfKind(kind)
        /\ \A s \in SourcesOfKind(kind) :
              sum_scores(probe.hits, s) <= sum_scores(probe.hits, probe.out[i])

\* C11: for a query without a name phrase whose hits hold a document source
\* and a web source, the selection holds the top-aggregate document source
\* and the top-aggregate web source; it has no duplicates and exactly
\* min(3, number of distinct sources) entries
C11_SelectionCoversBothKinds ==
    probe.pc = "done" =>
        /\ (SourcesOfKind("doc") # {} /\ SourcesOfKind("web") # {}) =>
               HoldsTopOf("doc") /\ HoldsTopOf("web")
        /\ \A i, j \in 1..Len(probe.out) : probe.out[i] = probe.out[j] => i = j
        /\ Len(probe.out) =
               Min2(TOP_N_DEFAULT,
                    Cardinality(SourcesOfKind("doc") \cup SourcesOfKind("web")))

\* C11 happens: three files outscore the one page, which is selected
C11_WebSelectedAgainstThreeFiles ==
    /\ probe.pc = "done"
    /\ Cardinality(SourcesOfKind("doc")) = 3
    /\ \E w \in SourcesOfKind("web") :
          /\ \A d \in SourcesOfKind("doc") :
                sum_scores(probe.hits, w) < sum_scores(probe.hits, d)
          /\ \E i \in 1..Len(probe.out) : probe.out[i] = w

\* ------------------------------------------------------------------------
\* response.split_compound on its own, over questions of up to
\* MaxSplitTokens tokens
\* ------------------------------------------------------------------------
MaxSplitTokens == 9

SplitTokens == {"a", "b", "?"}

InitSplit ==
    /\ conversation_context = <<>>
    /\ LAST_TITLE = NoTitle
    /\ OMDB_CACHE = {}
    /\ upload_dir = {}
    /\ doc_collection = {}
    /\ web_collection = {}
    /\ background_tasks = <<>>
    /\ last = Returned("start", TRUE, 200)
    /\ stream = StreamIdle
    /\ cite = CiteIdle
    /\ inflight = NoneInFlight
    /\ \E q \in UNION {[1..n -> SplitTokens] : n \in 0..MaxSplitTokens} :
           probe = [pc |-> "ready", question |-> q, out |-> <<>>]

split_question ==
    /\ probe.pc = "ready"
    /\ probe' = [probe EXCEPT !.pc = "done", !.out = split_compound(probe.question)]
    /\ UNCHANGED <<session, stores, last, stream, cite, inflight>>

NextSplit == split_question

SpecSplit == InitSplit /\ [][NextSplit]_vars

\* the "?"-delimited fragments of q with at least three words, as pairs of
\* their first and last positions (every token of SplitTokens but "?" is a word)
QualifiedFragments(q) ==
    {r \in (1..Len(q)) \X (1..Len(q)) :
        /\ r[2] - r[1] + 1 >= 3
        /\ \A k \in r[1]..r[2] : q[k] # "?"
        /\ r[1] = 1 \/ q[r[1] - 1] = "?"
        /\ r[2] = Len(q) \/ q[r[2] + 1] = "?"}

\* C12: split_compound never returns an empty list; it returns, in original
\* order, every "?"-delimited fragment of at least three words with "?"
\* appended, and the list holding the original question when there is none
C12_SplitKeepsQualifiedOrWhole ==
    probe.pc = "done" =>
        LET q == probe.question
            R == QualifiedFragments(q)
        IN  /\ probe.out # <<>>
            /\ R = {} => probe.out = <<q>>
            /\ R # {} =>
                  /\ Len(probe.out) = Cardinality(R)
                  /\ \A r \in R :
                        probe.out[1 + Cardinality({x \in R : x[1] < r[1]})]
                            = Append(SubSeq(q, r[1], r[2]), "?")

\* C12 happens: two fragments qualify and a shorter one between or around
\* them is dropped
C12_TwoKeptOneDropped ==
    /\ probe.pc = "done"
    /\ Len(probe.out) = 2
    /\ Cardinality(QualifiedFragments(probe.question)) = 2
    /\ \E i \in 1..Len(probe.question) : \E j \in i..Len(probe.question) :
          /\ j - i + 1 < 3
          /\ \A k \in i..j : probe.question[k] # "?"
          /\ i > 1 /\ probe.question[i - 1] = "?"
          /\ j < Len(probe.question) /\ probe.question[j + 1] = "?"

\* ------------------------------------------------------------------------
\* The compound response (response.py, lines 39-48)
\* ------------------------------------------------------------------------
CompoundReturned == last.op = "ask" /\ last.completed /\ last.compound

\* one answer line per sub-question, numbered 1), 2), ... in question order,
\* and exactly one line feed between two entries
NumberedAndSeparated(subs, body) ==
    LET answers == SelectSeq(body, LAMBDA f : f.line = "answer")
    IN  /\ Len(answers) = Len(subs)
        /\ \A i \in 1..Len(answers) : answers[i].idx = i
        /\ body # <<>> /\ body[1].line = "answer" /\ body[Len(body)].line # "blank"
        /\ \A k \in 1..Len(body) :
              /\ body[k].line = "blank" =>
                    k < Len(body) /\ body[k + 1].line = "answer"
              /\ (body[k].line = "answer" /\ body[k].idx > 1) =>
                    body[k - 1].line = "blank"
              /\ body[k].line = "sources" =>
                    k > 1 /\ body[k - 1].line = "answer" /\ body[k - 1].idx = body[k].idx

SingleReturned == last.op = "ask" /\ last.completed /\ ~last.compound

\* C14: when split_compound yields a single element the response is exactly
\* what answer_question_stream yielded for the question, character for
\* character
C14_SinglePathPassesThrough ==
    SingleReturned =>
        LET yielded == last.runs[1].yielded
        IN  IF yielded.kind = "nothing" THEN last.body = <<>>
            ELSE /\ Len(last.body) = 1
                 /\ last.body[1].kind = yielded.kind
                 /\ last.body[1].text = yielded.text
                 /\ last.body[1].sources = yielded.sources

\* ------------------------------------------------------------------------
\* The help reply over a conversation (qa_core.py, lines 32-35)
\* ------------------------------------------------------------------------
\* conversations of help questions and questions that record a turn, single
\* and compound, with every handler that clears the context; a request is
\* taken while the context holds fewer than HelpTurns turns
HelpTurns == 2

HelpRequests ==
    {[question |-> q, ext |-> Nominal] :
        q \in {<<"help">>, <<"i", "need", "help">>, <<"what", "is", "diabetes">>,
               <<"can", "you", "help", "me", "?", "what", "is", "diabetes", "?">>,
               <<"what", "is", "diabetes", "?", "can", "you", "help", "me", "?">>}}

ask_help ==
    \E req \in HelpRequests : ask_handler(req.question, FALSE, req.ext, HelpTurns)

NextHelp ==
    \/ ask_help
    \/ new_session
    \/ clear_all
    \/ delete_file

SpecHelp == InitConversation /\ [][NextHelp]_vars

HelpNotGreeting(q) == is_help(q) /\ ~is_greeting(q)

\* C15: a help question that is not a greeting gets the canned help reply
\* exactly when the context is empty: once a turn is recorded and until
\* new-session, clear-all or delete-file it goes to retrieval, and asked
\* right after one of these it gets the canned reply again
C15_HelpCannedIffContextEmpty ==
    [][(last'.op = "ask" /\ last'.completed) =>
          /\ last'.runs[1].before = conversation_context
          /\ \A i \in 1..Len(last'.runs) :
                HelpNotGreeting(last'.runs[i].q) =>
                    IF last'.runs[i].before = <<>>
                    THEN /\ last'.runs[i].out.kind = "help"
                         /\ last'.runs[i].calls = NoCalls
                    ELSE /\ last'.runs[i].out.kind # "help"
                         /\ last'.runs[i].calls.embed = 1
                         /\ last'.runs[i].calls.search_doc = 1
          /\ (last.op \in ClearingHandlers /\ last.completed
                  /\ HelpNotGreeting(last'.runs[1].q)) =>
                last'.runs[1].out.kind = "help"]_vars

\* C15 happens: a help question asked after a turn was recorded goes to
\* retrieval
C15_HelpAfterTurnRetrieves ==
    /\ last.op = "ask" /\ last.completed /\ ~last.compound
    /\ HelpNotGreeting(last.question)
    /\ last.turns_before > 0
    /\ last.runs[1].out.kind = "answer"

\* ------------------------------------------------------------------------
\* Document-mode retrieval on its own (qa_core.py, lines 111-246): one
\* question on every content of the two collections
\* ------------------------------------------------------------------------
RetrieveQuestions ==
    {<<"what", "does", "the", "link", "tell", "about", "insulin">>,
     <<"show", "the", "link", "from", "the", "documents", "about", "insulin">>,
     <<"who", "is", "john", "reddy">>,
     <<"who", "is", "john", "jones">>,
     <<"who", "is", "mary", "jones">>,
     <<"who", "is", "reddy">>,
     <<"tell", "me", "the", "insulin", "dosage", "guidance">>}

RetrieveServices ==
    {[Nominal EXCEPT !.emb = e] : e \in Embeddings}
    \cup {[Nominal EXCEPT !.embed_fails = TRUE]}

InitRetrieve ==
    /\ conversation_context = <<>>
    /\ LAST_TITLE = NoTitle
    /\ OMDB_CACHE = {}
    /\ upload_dir = {}
    /\ doc_collection = {}
    /\ web_collection = {}
    /\ background_tasks = <<>>
    /\ last = Returned("start", TRUE, 200)
    /\ stream = StreamIdle
    /\ cite = CiteIdle
    /\ inflight = NoneInFlight
    /\ \E q \in RetrieveQuestions, ext \in RetrieveServices :
       \E doc \in SUBSET Union({ChunksOfFile(f) : f \in DocFiles}) :
       \E web \in SUBSET Union({ChunksOfUrl(u) : u \in WebUrls}) :
           probe = [pc |-> "ready", q |-> q, ext |-> ext, doc |-> doc, web |-> web,
                    combined |-> <<>>, merged |-> <<>>, hits |-> <<>>,
                    out |-> Reply("nothing"), calls |-> NoCalls]

\* the stages of one call, r being what the call did
retrieved(doc_hits, web_hits, merged, r) ==
    probe' = [probe EXCEPT !.pc = "done",
                           !.combined = doc_hits \o web_hits,
                           !.merged = merged,
                           !.hits = reranked(extract_name_phrase(probe.q), merged),
                           !.out = r.out, !.calls = r.calls]

retrieve ==
    /\ probe.pc = "ready"
    /\ retrieved(search_chunks(probe.doc, get_embedding(probe.ext), SEARCH_K),
                 search_chunks(probe.web, get_embedding(probe.ext), SEARCH_K),
                 merged_hits(lower_q(probe.q),
                     search_chunks(probe.doc, get_embedding(probe.ext), SEARCH_K),
                     search_chunks(probe.web, get_embedding(probe.ext), SEARCH_K)),
                 answer_documents(probe.q, <<>>, NoTitle, {}, probe.doc, probe.web,
                                  probe.ext))
    /\ UNCHANGED <<session, stores, last, stream, cite, inflight>>

NextRetrieve == retrieve

SpecRetrieve == InitRetrieve /\ [][NextRetrieve]_vars

\* C16: the no-evidence message is returned exactly when the merged
\* document+web hit list is empty; neither the web-phrase filter nor the
\* name-token filter turns a non-empty hit list into an empty one, and
\* get_streaming_answer is not invoked with zero hits
C16_NoEvidenceIffNoHits ==
    probe.pc = "done" =>
        /\ probe.out.kind = "no_evidence" <=> probe.combined = <<>>
        /\ probe.combined # <<>> => (probe.merged # <<>> /\ probe.hits # <<>>)
        /\ probe.calls.generate > 0 => probe.hits # <<>>

\* C16 happens: a question about "the link" is asked while only documents
\* are stored, so no hit passes the web test, and it is answered
C16_WebPhraseWithoutWebHits ==
    /\ probe.pc = "done"
    /\ prefer_web_by_phrase(lower_q(probe.q)) /\ ~mentions_docs(lower_q(probe.q))
    /\ probe.combined # <<>>
    /\ \A i \in 1..Len(probe.combined) : ~is_web_hit(probe.combined[i])
    /\ probe.out.kind = "answer"
    /\ probe.calls.generate = 1

\* ------------------------------------------------------------------------
\* The effect of one call on the context (qa_core.py, lines 26-47, 162-172
\* and 253-255)
\* ------------------------------------------------------------------------
ShortCircuitKinds ==
    {"empty_question", "greeting", "help", "thanks", "ok", "hello",
     "no_evidence", "disambiguation"}

\* conversation_context as the i-th call of the last request left it
ContextAfter(i) ==
    IF i < Len(LastRuns) THEN LastRuns[i + 1].before ELSE conversation_context

\* the turn is the only one added, and it holds the question and the
\* selected sources: those whose text makes up the stored context and, when
\* an answer was yielded, those its Sources block lists
AppendsOwnTurn(r, after) ==
    /\ Len(after) = Len(r.before) + 1
    /\ SubSeq(after, 1, Len(r.before)) = r.before
    /\ after[Len(after)].question = r.q
    /\ after[Len(after)].sources # <<>>
    /\ {after[Len(after)].sources[k] : k \in 1..Len(after[Len(after)].sources)}
         = {after[Len(after)].context[k].source :
               k \in 1..Len(after[Len(after)].context)}
    /\ r.yielded.kind = "answer" =>
         r.yielded.sources
           = [k \in 1..Len(after[Len(after)].sources) |->
                 [base |-> basename(after[Len(after)].sources[k]),
                  pages |-> r.yielded.sources[k].pages]]

\* C17: a call that short-circuits (empty question, greeting, help,
\* standalone smalltalk, no-evidence, surname disambiguation) leaves the
\* context unchanged, and a document-mode call that reaches generation
\* appends exactly one turn, holding its question and selected sources
C17_ShortCircuitKeepsGenerationAppends ==
    \A i \in 1..Len(LastRuns) :
        /\ LastRuns[i].out.kind \in ShortCircuitKinds =>
              ContextAfter(i) = LastRuns[i].before
        /\ (~last.entertainment_enabled /\ LastRuns[i].calls.generate > 0) =>
              AppendsOwnTurn(LastRuns[i], ContextAfter(i))

\* C17 happens: in one compound request a call reaches generation and the
\* next one short-circuits on the context the first left
C17_AppendThenShortCircuit ==
    /\ Len(LastRuns) = 2
    /\ ~last.entertainment_enabled
    /\ LastRuns[1].calls.generate > 0
    /\ LastRuns[2].out.kind \in ShortCircuitKinds
    /\ LastRuns[2].before # <<>>

\* ------------------------------------------------------------------------
\* The prompt and the length cap of one question (qa_core.py, lines 259-278),
\* over questions of up to MaxCapTokens tokens
\* ------------------------------------------------------------------------
MaxCapTokens == 5

CapTokens == {"what", "is", "it", "this", "file", "about", "define", "insulin"}

InitCap ==
    /\ conversation_context = <<>>
    /\ LAST_TITLE = NoTitle
    /\ OMDB_CACHE = {}
    /\ upload_dir = {}
    /\ doc_collection = {}
    /\ web_collection = {}
    /\ background_tasks = <<>>
    /\ last = Returned("start", TRUE, 200)
    /\ stream = StreamIdle
    /\ cite = CiteIdle
    /\ inflight = NoneInFlight
    /\ \E q \in UNION {[1..n -> CapTokens] : n \in 1..MaxCapTokens} :
           probe = [pc |-> "ready", q |-> q, prompt |-> "none", max_chars |-> 0]

\* lines 255-278 for the question: the turn is stored, then the prompt and
\* the cap are chosen
prompt_and_cap ==
    /\ probe.pc = "ready"
    /\ probe' = [probe EXCEPT
                    !.pc = "done",
                    !.prompt = choose_prompt(probe.q,
                                   add_to_context(<<>>, probe.q, <<>>, <<>>),
                                   <<>>, <<>>).kind,
                    !.max_chars = max_chars_for(probe.q)]
    /\ UNCHANGED <<session, stores, last, stream, cite, inflight>>

NextCap == prompt_and_cap

SpecCap == InitCap /\ [][NextCap]_vars

\* C18: the length cap is decided by the same intent as the prompt, About
\* before Definition in both: 700 whenever the summary prompt is chosen, 380
\* whenever the definition prompt is chosen, 1800 otherwise
C18_CapFollowsPrompt ==
    probe.pc = "done" =>
        probe.max_chars = (IF probe.prompt = "summary" THEN CAP_ABOUT
                           ELSE IF probe.prompt = "definition" THEN CAP_DEFINITION
                           ELSE CAP_DEFAULT)

\* ------------------------------------------------------------------------
\* The sub-questions of one compound request (response.py, lines 40-41)
\* ------------------------------------------------------------------------
\* what the pipeline does for the question q alone on the state that held
\* before the last request (a request changes neither collection)
AloneBeforeRequest(q) ==
    answer_question_stream(q, last.entertainment_enabled, last.runs[1].before,
                           LAST_TITLE, OMDB_CACHE, doc_collection, web_collection,
                           last.ext)

\* C19: in compound mode each sub-question is answered independently: its
\* short-circuit decision, prompt and answer are those of the sub-question
\* alone on the state before the request, whatever the other sub-questions
\* of the request and their order
C19_SubQuestionsIndependent ==
    (CompoundReturned /\ ~last.entertainment_enabled) =>
        \A i \in 1..Len(last.runs) :
            /\ last.runs[i].yielded = AloneBeforeRequest(last.runs[i].q).out
            /\ last.runs[i].prompt = AloneBeforeRequest(last.runs[i].q).prompt
            /\ last.runs[i].calls = AloneBeforeRequest(last.runs[i].q).calls

\* ------------------------------------------------------------------------
\* Concurrent requests.  main.ask hands a synchronous generator to
\* StreamingResponse, which runs it in the threadpool, and new_session runs
\* on the event loop: the accesses of two requests to conversation_context
\* interleave.  One step per access of qa_core.py, lines 255-268
\* ------------------------------------------------------------------------
MaxInFlight == 2
MaxConcurrentTurns == 2

ConcurrentQuestions ==
    {<<"tell", "me", "the", "insulin", "dosage", "guidance">>,
     <<"explain", "the", "insulin", "dosage", "guidance">>,
     <<"what", "is", "diabetes">>}

Slots == 1..MaxInFlight
Idle == [pc |-> "idle", q |-> <<>>, sources |-> <<>>, context |-> <<>>,
         kind |-> "none", previous |-> <<>>]

\* lines 111-254 for q: the selected sources and the context built of them
selected_for(q, hits) ==
    [pc |-> "selected", q |-> q,
     sources |-> select_sources(hits, IF extract_name_phrase(q) # <<>>
                                      THEN TOP_N_NAME ELSE TOP_N_DEFAULT),
     context |-> assemble_context(hits,
                     select_sources(hits, IF extract_name_phrase(q) # <<>>
                                          THEN TOP_N_NAME ELSE TOP_N_DEFAULT)),
     kind |-> "none", previous |-> <<>>]

InitConcurrent ==
    /\ conversation_context = <<>>
    /\ LAST_TITLE = NoTitle
    /\ OMDB_CACHE = {}
    /\ upload_dir = DocFiles
    /\ doc_collection = Union({ChunksOfFile(f) : f \in DocFiles})
    /\ web_collection = Union({ChunksOfUrl(u) : u \in WebUrls})
    /\ background_tasks = <<>>
    /\ last = Returned("start", TRUE, 200)
    /\ stream = StreamIdle
    /\ cite = CiteIdle
    /\ probe = ProbeIdle
    /\ inflight = [i \in Slots |-> Idle]

\* main.ask and qa_core.py up to line 254: the request is accepted and its
\* sources are selected
ask_select(i) ==
    /\ inflight[i].pc = "idle"
    /\ Len(conversation_context) < MaxConcurrentTurns
    /\ \E q \in ConcurrentQuestions :
          /\ allowed(q, FALSE, Nominal)
          /\ short_circuit(q, conversation_context) = "continue"
          /\ inflight' = [inflight EXCEPT ![i] =
                 selected_for(q,
                     reranked(extract_name_phrase(q),
                         merged_hits(lower_q(q),
                             search_chunks(doc_collection, get_embedding(Nominal), SEARCH_K),
                             search_chunks(web_collection, get_embedding(Nominal), SEARCH_K))))]
    /\ UNCHANGED <<session, stores, last, stream, cite, probe>>

\* line 255
ask_add_to_context(i) ==
    /\ inflight[i].pc = "selected"
    /\ conversation_context' = add_to_context(conversation_context, inflight[i].q,
                                    inflight[i].context, inflight[i].sources)
    /\ inflight' = [inflight EXCEPT ![i].pc = "added"]
    /\ UNCHANGED <<LAST_TITLE, OMDB_CACHE, stores, last, stream, cite, probe>>

\* lines 259-265: the branch, has_recent_context() reading the list as it is
\* now
ask_choose_branch(i) ==
    /\ inflight[i].pc = "added"
    /\ inflight' = [inflight EXCEPT
                       ![i].pc = "branched",
                       ![i].kind = choose_prompt(inflight[i].q, conversation_context,
                                       inflight[i].context, inflight[i].sources).kind]
    /\ UNCHANGED <<session, stores, last, stream, cite, probe>>

\* lines 260-268: the prompt of the branch, get_recent_context() reading the
\* list as it is now
ask_build_prompt(i) ==
    /\ inflight[i].pc = "branched"
    /\ inflight' = [inflight EXCEPT
                       ![i].pc = "prompted",
                       ![i].previous = IF inflight[i].kind = "follow_up"
                                       THEN get_recent_context(conversation_context)
                                       ELSE <<>>]
    /\ UNCHANGED <<session, stores, last, stream, cite, probe>>

\* lines 283-321: the answer is streamed and the generator ends
ask_stream(i) ==
    /\ inflight[i].pc = "prompted"
    /\ inflight' = [inflight EXCEPT ![i] = Idle]
    /\ UNCHANGED <<session, stores, last, stream, cite, probe>>

NextConcurrent ==
    \/ \E i \in Slots : ask_select(i)
    \/ \E i \in Slots : ask_add_to_context(i)
    \/ \E i \in Slots : ask_choose_branch(i)
    \/ \E i \in Slots : ask_build_prompt(i)
    \/ \E i \in Slots : ask_stream(i)
    \/ new_session

SpecConcurrent == InitConcurrent /\ [][NextConcurrent]_vars

\* the turn the request of slot i stores
OwnTurn(i) ==
    [question |-> inflight[i].q, context |-> inflight[i].context,
     sources |-> inflight[i].sources]

\* C20: with two ask requests, or an ask and a reset, running concurrently,
\* each ask sees a consistent context: between its add_to_context and its
\* prompt construction the last turn of the context is its own, no turn
\* recorded by the other in-flight request appears in its prompt, and a
\* concurrent reset does not change which prompt branch it takes
C20_ConsistentContextPerRequest ==
    \A i \in Slots :
        /\ inflight[i].pc \in {"added", "branched"} =>
              /\ conversation_context # <<>>
              /\ conversation_context[Len(conversation_context)] = OwnTurn(i)
        /\ inflight[i].pc = "prompted" =>
              /\ inflight[i].kind
                   = choose_prompt(inflight[i].q, <<OwnTurn(i)>>, inflight[i].context,
                                   inflight[i].sources).kind
              /\ \A j \in Slots \ {i} :
                    (inflight[j].pc # "idle" /\ inflight[j].q # inflight[i].q) =>
                        \A k \in 1..Len(inflight[i].previous) :
                            inflight[i].previous[k].question # inflight[j].q

\* ------------------------------------------------------------------------
\* The accumulation loop, step by step (qa_core.py, lines 283-307 and 77-92)
\* ------------------------------------------------------------------------
Consuming == stream.pc = "loop"

\* C21 as stated: while the fragment stream is consumed, the accumulator never
\* holds more than cap + 200 characters, and once it holds cap characters no
\* later fragment is appended to it
C21_AccumulatorWithinOverflow ==
    [][Consuming =>
          /\ Len(stream'.accum) <= stream.max_chars + SOFT_OVERFLOW
          /\ Len(stream.accum) >= stream.max_chars => stream'.accum = stream.accum]_vars

\* C21 amended: the count the loop keeps, total, is the number of characters
\* taken from fragments and leaves out the spaces inserted between them; it
\* never exceeds cap + 200, and once it has reached the cap no later fragment
\* is appended to the accumulator
C21_TotalWithinOverflow ==
    [][Consuming =>
          /\ stream'.total <= stream.max_chars + SOFT_OVERFLOW
          /\ stream'.total <= Len(stream'.accum)
          /\ stream.total >= stream.max_chars => stream'.accum = stream.accum]_vars

\* C21 happens: the loop ended on a fragment that was left out because the
\* count had passed the cap, using the overflow allowance
C21_FragmentLeftOut ==
    /\ stream.pc = "trim"
    /\ stream.chunks # <<>>
    /\ ~skipped(Head(stream.chunks))
    /\ stream.total > stream.max_chars

\* ------------------------------------------------------------------------
\* qa_utils.smart_trim on its own, over texts of up to MaxTrimLen characters
\* and the limit TrimLimit
\* ------------------------------------------------------------------------
MaxTrimLen == 7
TrimLimit == 6

TrimChars == {"d", "r", ".", "!", " "}

InitTrim ==
    /\ conversation_context = <<>>
    /\ LAST_TITLE = NoTitle
    /\ OMDB_CACHE = {}
    /\ upload_dir = {}
    /\ doc_collection = {}
    /\ web_collection = {}
    /\ background_tasks = <<>>
    /\ last = Returned("start", TRUE, 200)
    /\ stream = StreamIdle
    /\ cite = CiteIdle
    /\ inflight = NoneInFlight
    /\ \E t \in UNION {[1..n -> TrimChars] : n \in 0..MaxTrimLen} :
           probe = [pc |-> "ready", t |-> t, limit |-> TrimLimit, out |-> <<>>]

trim_text ==
    /\ probe.pc = "ready"
    /\ probe' = [probe EXCEPT !.pc = "done", !.out = smart_trim(probe.t, probe.limit)]
    /\ UNCHANGED <<session, stores, last, stream, cite, inflight>>

NextTrim == trim_text

SpecTrim == InitTrim /\ [][NextTrim]_vars

\* the positions in tail of a ".", "!" or "?" that a space follows and no
\* known abbreviation precedes
SentenceEnds(tail) ==
    {i \in 1..(Len(tail) - 1) :
        tail[i] \in TerminalPunct /\ tail[i + 1] = " " /\ ~is_abbrev_before(tail, i)}

\* the cut at the last newline, else the last space, beyond 60% of the
\* limit, else none
BoundaryFallback(snippet, limit) ==
    IF rfind_char(snippet, "\n") # 0
       /\ beyond_60_percent(rfind_char(snippet, "\n") - 1, limit)
    THEN strip_trailing(rstrip(Prefix(snippet, rfind_char(snippet, "\n") - 1)))
    ELSE IF rfind_char(snippet, " ") # 0
            /\ beyond_60_percent(rfind_char(snippet, " ") - 1, limit)
    THEN strip_trailing(rstrip(Prefix(snippet, rfind_char(snippet, " ") - 1)))
    ELSE strip_trailing(rstrip(snippet))

\* C22: for a text longer than the limit smart_trim cuts right after the
\* last ".", "!" or "?" followed by a space in the final 220 characters of
\* the limit-length prefix that no known abbreviation precedes, and falls
\* back to the last newline, then the last space, beyond 60% of the limit
\* only when there is no such punctuation
C22_CutsAfterLastSentenceEnd ==
    (probe.pc = "done" /\ Len(probe.t) > probe.limit) =>
        LET snippet == Prefix(probe.t, probe.limit)
            tail == Suffix(snippet, TAIL_WINDOW)
            ends == SentenceEnds(tail)
        IN  IF ends # {}
            THEN probe.out = rstrip(Prefix(snippet, Len(snippet) - Len(tail) + MaxOf(ends)))
            ELSE probe.out = BoundaryFallback(snippet, probe.limit)

\* ------------------------------------------------------------------------
\* One append of the accumulation loop (qa_core.py, lines 296-307 and 85-92),
\* over accumulators of up to MaxAccumLen and fragments of up to MaxTakeLen
\* characters
\* ------------------------------------------------------------------------
MaxAccumLen == 3
MaxTakeLen == 2

StitchChars == {"a", "B", "5", " ", ","}

\* non-empty texts with no blank at either end, as str.strip() leaves them
Stripped(n) ==
    {t \in UNION {[1..k -> StitchChars] : k \in 1..n} :
        ~isspace(t[1]) /\ ~isspace(t[Len(t)])}

InitStitch ==
    /\ conversation_context = <<>>
    /\ LAST_TITLE = NoTitle
    /\ OMDB_CACHE = {}
    /\ upload_dir = {}
    /\ doc_collection = {}
    /\ web_collection = {}
    /\ background_tasks = <<>>
    /\ last = Returned("start", TRUE, 200)
    /\ stream = StreamIdle
    /\ cite = CiteIdle
    /\ inflight = NoneInFlight
    /\ \E accum \in Stripped(MaxAccumLen), take \in Stripped(MaxTakeLen) :
           probe = [pc |-> "ready", accum |-> accum, take |-> take, out |-> <<>>]

append_fragment ==
    /\ probe.pc = "ready"
    /\ probe' = [probe EXCEPT !.pc = "done", !.out = stitch(probe.accum, probe.take)]
    /\ UNCHANGED <<session, stores, last, stream, cite, inflight>>

NextStitch == append_fragment

SpecStitch == InitStitch /\ [][NextStitch]_vars

isalpha(c) == c \in Lowercase \cup Uppercase

\* the alphanumeric run that ends accum (empty if accum does not end in one)
TrailingToken(accum) ==
    LET S == {k \in 1..Len(accum) : \A j \in k..Len(accum) : isalnum(accum[j])}
    IN  IF S = {} THEN <<>>
        ELSE SubSeq(accum, CHOOSE k \in S : \A m \in S : k <= m, Len(accum))

SingleLetter(tok) == Len(tok) = 1 /\ isalpha(tok[1])

\* C23: when a cleaned fragment is appended to a non-empty accumulator, one
\* space is inserted if and only if the accumulator's last character and the
\* fragment's first character are both alphanumeric and it is not the case
\* that the accumulator's trailing token is a single letter while the fragment
\* starts with a lowercase letter; otherwise nothing is put in between
C23_SpaceBetweenWords ==
    probe.pc = "done" =>
        probe.out =
            (IF /\ isalnum(probe.accum[Len(probe.accum)])
                /\ isalnum(probe.take[1])
                /\ ~(SingleLetter(TrailingToken(probe.accum)) /\ islower(probe.take[1]))
             THEN probe.accum \o <<" ">> \o probe.take
             ELSE probe.accum \o probe.take)

\* ------------------------------------------------------------------------
\* The final tidy pass (qa_utils.py tidy_text) on every short text of words,
\* full stops, spaces and newlines
\* ------------------------------------------------------------------------
MaxTidyLen == 5

TidyChars == {"a", ".", " ", "\n"}

InitTidy ==
    /\ conversation_context = <<>>
    /\ LAST_TITLE = NoTitle
    /\ OMDB_CACHE = {}
    /\ upload_dir = {}
    /\ doc_collection = {}
    /\ web_collection = {}
    /\ background_tasks = <<>>
    /\ last = Returned("start", TRUE, 200)
    /\ stream = StreamIdle
    /\ cite = CiteIdle
    /\ inflight = NoneInFlight
    /\ \E t \in UNION {[1..k -> TidyChars] : k \in 1..MaxTidyLen} :
           probe = [pc |-> "ready", t |-> t, out |-> <<>>]

tidy ==
    /\ probe.pc = "ready"
    /\ probe' = [probe EXCEPT !.pc = "done", !.out = tidy_text(probe.t)]
    /\ UNCHANGED <<session, stores, last, stream, cite, inflight>>

NextTidy == tidy

SpecTidy == InitTidy /\ [][NextTidy]_vars

\* the newline runs of t that stand between two paragraphs: positions i < j
\* of non-blank characters with nothing but k >= 2 newlines between them
ParagraphBreaks(t) ==
    {<<i, j>> \in (1..Len(t)) \X (1..Len(t)) :
        /\ j >= i + 3
        /\ ~isspace(t[i]) /\ ~isspace(t[j])
        /\ \A m \in (i+1)..(j-1) : t[m] = "\n"}

\* the paragraph breaks of t that are exactly one blank line
BlankLines(t) == {b \in ParagraphBreaks(t) : b[2] = b[1] + 3}

\* C24: tidy_text keeps paragraph structure: every run of two or more
\* newlines between two paragraphs of its input is one blank line of its
\* output (as many blank lines come out as paragraph breaks went in, and no
\* longer newline run is left)
C24_ParagraphsSurvive ==
    probe.pc = "done" =>
        /\ Cardinality(BlankLines(probe.out)) = Cardinality(ParagraphBreaks(probe.t))
        /\ ParagraphBreaks(probe.out) = BlankLines(probe.out)

\* ------------------------------------------------------------------------
\* Selection, context assembly and the Sources block (qa_core lines 221-253
\* and 316-319) on their own, over up to MaxAttributedHits hits of two files
\* and one page, for both target sizes
\* ------------------------------------------------------------------------
MaxAttributedHits == 3

AttributedPayloads ==
    {DocPayload(f, <<t>>) : f \in {"a.pdf", "b.pdf"}, t \in {"t1", "t2"}}
    \cup {WebPayload(u, <<t>>) : u \in WebUrls, t \in {"t1", "t2"}}
AttributedHits == {scored(p, sc) : p \in AttributedPayloads, sc \in SelectScores}

InitAttribute ==
    /\ conversation_context = <<>>
    /\ LAST_TITLE = NoTitle
    /\ OMDB_CACHE = {}
    /\ upload_dir = {}
    /\ doc_collection = {}
    /\ web_collection = {}
    /\ background_tasks = <<>>
    /\ last = Returned("start", TRUE, 200)
    /\ stream = StreamIdle
    /\ cite = CiteIdle
    /\ inflight = NoneInFlight
    /\ \E hits \in UNION {[1..n -> AttributedHits] : n \in 1..MaxAttributedHits},
          top_n \in {TOP_N_NAME, TOP_N_DEFAULT} :
           probe = [pc |-> "ready", hits |-> sorted_desc(hits, scores_of(hits)),
                    top_n |-> top_n, sources |-> <<>>, context |-> <<>>,
                    src_block |-> <<>>]

\* lines 232-253 and 316-319
attribute ==
    /\ probe.pc = "ready"
    /\ LET sources == select_sources(probe.hits, probe.top_n)
       IN  probe' = [probe EXCEPT
               !.pc = "done",
               !.sources = sources,
               !.context = assemble_context(probe.hits, sources),
               !.src_block = format_sources_with_pages(sources,
                                 restrict_pages(pages_by_source(probe.hits), sources))]
    /\ UNCHANGED <<session, stores, last, stream, cite, inflight>>

NextAttribute == attribute

SpecAttribute == InitAttribute /\ [][NextAttribute]_vars

\* the positions of the probed hits that belong to source s, in ranked order
HitsOf(s) == SelectIdx([i \in 1..Len(probe.hits) |-> i],
                       [i \in 1..Len(probe.hits) |-> source_key(probe.hits[i]) = s])

IsSelected(s) == \E i \in 1..Len(probe.sources) : probe.sources[i] = s

\* C25: the assembled context has exactly one section per selected source,
\* each section holds the texts of all hits of its source in ranked hit
\* order (so no text of a source that was not selected), and the Sources
\* block cites exactly the selected sources
C25_AttributionConsistent ==
    probe.pc = "done" =>
        /\ \A i \in 1..Len(probe.context) : IsSelected(probe.context[i].source)
        /\ \A i \in 1..Len(probe.sources) :
              Cardinality({k \in 1..Len(probe.context) :
                              probe.context[k].source = probe.sources[i]}) = 1
        /\ \A k \in 1..Len(probe.context) :
              LET at == HitsOf(probe.context[k].source)
              IN  /\ Len(probe.context[k].texts) = Len(at)
                  /\ \A j \in 1..Len(at) :
                        probe.context[k].texts[j] = probe.hits[at[j]].text
        /\ Len(probe.src_block) = Len(probe.sources)
        /\ \A i \in 1..Len(probe.sources) :
              probe.src_block[i].base = basename(probe.sources[i])

\* C25 happens: the selected source has two hits with a hit of a source that
\* was not selected ranked between them
C25_SelectedAroundNonSelected ==
    /\ probe.pc = "done"
    /\ Len(probe.hits) = 3
    /\ IsSelected(source_key(probe.hits[1]))
    /\ ~IsSelected(source_key(probe.hits[2]))
    /\ source_key(probe.hits[3]) = source_key(probe.hits[1])
    /\ probe.hits[1].text # probe.hits[3].text

\* ------------------------------------------------------------------------
\* Storing the turn (qa_core lines 221-254, context.add_to_context) on its
\* own, over up to MaxStoredHits hits whose texts are one character or
\* LongChunk characters long
\* ------------------------------------------------------------------------
MaxStoredHits == 3
LongChunk == 300

\* ask.py line 376: context[:500]
STORED_CONTEXT_CHARS == 500

StoredPayloads ==
    {DocPayload(f, Rep(<<"a">>, n)) : f \in {"a.pdf", "b.pdf"}, n \in {1, LongChunk}}
    \cup {WebPayload(u, Rep(<<"a">>, n)) : u \in WebUrls, n \in {1, LongChunk}}
StoredHits == {scored(p, sc) : p \in StoredPayloads, sc \in SelectScores}

InitStore ==
    /\ conversation_context = <<>>
    /\ LAST_TITLE = NoTitle
    /\ OMDB_CACHE = {}
    /\ upload_dir = {}
    /\ doc_collection = {}
    /\ web_collection = {}
    /\ background_tasks = <<>>
    /\ last = Returned("start", TRUE, 200)
    /\ stream = StreamIdle
    /\ cite = CiteIdle
    /\ inflight = NoneInFlight
    /\ \E hits \in UNION {[1..n -> StoredHits] : n \in 1..MaxStoredHits},
          top_n \in {TOP_N_NAME, TOP_N_DEFAULT} :
           probe = [pc |-> "ready", hits |-> sorted_desc(hits, scores_of(hits)),
                    top_n |-> top_n, ctx |-> <<>>]

\* lines 232-254: the selected sources' context is stored with the turn
store_context ==
    /\ probe.pc = "ready"
    /\ LET sources == select_sources(probe.hits, probe.top_n)
       IN  probe' = [probe EXCEPT
               !.pc = "done",
               !.ctx = add_to_context(probe.ctx, <<"what", "is", "insulin">>,
                                      assemble_context(probe.hits, sources), sources)]
    /\ UNCHANGED <<session, stores, last, stream, cite, inflight>>

NextStore == store_context

SpecStore == InitStore /\ [][NextStore]_vars

RECURSIVE SumLen(_)
SumLen(texts) == IF texts = <<>> THEN 0 ELSE Len(Head(texts)) + SumLen(Tail(texts))

\* the characters of hit text in a context (the string the code builds has
\* the headings and the separators on top of these)
RECURSIVE evidence_chars(_)
evidence_chars(context) ==
    IF context = <<>> THEN 0
    ELSE SumLen(Head(context).texts) + evidence_chars(Tail(context))

\* C26: every turn stored in conversation_context holds a context of at most
\* a fixed number of characters, however much evidence was assembled
C26_StoredContextBounded ==
    \A i \in 1..Len(probe.ctx) :
        evidence_chars(probe.ctx[i].context) <= STORED_CONTEXT_CHARS

\* ------------------------------------------------------------------------
\* The embedding cache (embedding.py lines 15-44) over a run of calls.  A
\* text is a number (0: empty or blank), its md5 key is taken to be the text
\* itself; embedding_cache is the list of its keys in insertion order, which
\* is the order list(embedding_cache.keys()) gives
\* ------------------------------------------------------------------------
MaxTexts == 1150

\* line 35
CACHE_LIMIT == 1000
\* line 37
CACHE_EVICT == 100

EMPTY_TEXT == 0

\* the same insertion emptying the cache when it exceeds the limit
cache_store_clearing(cache, key) ==
    IF Len(Append(cache, key)) > CACHE_LIMIT THEN <<>> ELSE Append(cache, key)

\* lines 33-39, for a key that is not in the cache (line 25 returned otherwise)
cache_store(cache, key) ==
    IF Len(Append(cache, key)) > CACHE_LIMIT
    THEN SubSeq(Append(cache, key), CACHE_EVICT + 1, Len(cache) + 1)
    ELSE Append(cache, key)

cached(cache, key) == \E i \in 1..Len(cache) : cache[i] = key

InitEmbed ==
    /\ conversation_context = <<>>
    /\ LAST_TITLE = NoTitle
    /\ OMDB_CACHE = {}
    /\ upload_dir = {}
    /\ doc_collection = {}
    /\ web_collection = {}
    /\ background_tasks = <<>>
    /\ last = Returned("start", TRUE, 200)
    /\ stream = StreamIdle
    /\ cite = CiteIdle
    /\ inflight = NoneInFlight
    /\ probe = [embedding_cache |-> <<>>, texts |-> 0, text |-> EMPTY_TEXT,
                out |-> "none"]

\* the texts a call is made with: the empty text, the text of the oldest and
\* of the newest entry, and a text that was never stored (probe.texts counts
\* the texts stored so far)
CallTexts ==
    {EMPTY_TEXT}
    \cup (IF probe.embedding_cache = <<>> THEN {}
          ELSE {Head(probe.embedding_cache),
                probe.embedding_cache[Len(probe.embedding_cache)]})
    \cup (IF probe.texts < MaxTexts THEN {probe.texts + 1} ELSE {})

\* lines 17-44: one call get_embedding(text, use_cache); encode_fails is
\* model.encode raising
embed ==
    \E text \in CallTexts, use_cache \in BOOLEAN, encode_fails \in BOOLEAN :
        probe' =
            [embedding_cache |->
                 IF text = EMPTY_TEXT \/ ~use_cache \/ encode_fails
                    \/ cached(probe.embedding_cache, text)
                 THEN probe.embedding_cache
                 ELSE cache_store(probe.embedding_cache, text),
             texts |-> IF text = EMPTY_TEXT \/ ~use_cache \/ encode_fails
                          \/ cached(probe.embedding_cache, text)
                       THEN probe.texts ELSE text,
             text |-> text,
             out |-> IF text = EMPTY_TEXT THEN "zero"
                     ELSE IF use_cache /\ cached(probe.embedding_cache, text)
                     THEN "cached"
                     ELSE IF encode_fails THEN "zero" ELSE "encoded"]
        /\ UNCHANGED <<session, stores, last, stream, cite, inflight>>

NextEmbed == embed

SpecEmbed == InitEmbed /\ [][NextEmbed]_vars

\* the call inserted an entry for its text
Inserts ==
    /\ ~cached(probe.embedding_cache, probe'.text)
    /\ probe'.embedding_cache # probe.embedding_cache

\* the insertion pushes the cache above the limit
Overflows == Inserts /\ Len(probe.embedding_cache) = CACHE_LIMIT

NewestKept ==
    \/ probe'.embedding_cache = <<>>
    \/ cached(probe'.embedding_cache, probe'.text)

\* C27 as stated: after every call the cache holds at most CACHE_LIMIT
\* entries, an insertion that pushes it above the limit empties it, and the
\* entry just inserted is never lost while older entries survive
C27_ClearedOnOverflow ==
    [][/\ Len(probe'.embedding_cache) <= CACHE_LIMIT
       /\ Overflows => probe'.embedding_cache = <<>>
       /\ Inserts => NewestKept]_vars

\* C27, amended: after every call the cache holds at most CACHE_LIMIT
\* entries; an insertion that pushes it above the limit removes the
\* CACHE_EVICT oldest entries and keeps the others in order, and the entry
\* just inserted is always in the cache when the call returns
C27_OldestEvictedOnOverflow ==
    [][/\ Len(probe'.embedding_cache) <= CACHE_LIMIT
       /\ Overflows =>
             probe'.embedding_cache =
                 Append(SubSeq(probe.embedding_cache, CACHE_EVICT + 1, CACHE_LIMIT),
                        probe'.text)
       /\ Inserts => cached(probe'.embedding_cache, probe'.text)]_vars

\* C27 happens: the call that stored the text after the first CACHE_LIMIT
\* ones has returned
C27_FirstOverflow ==
    /\ probe.text = CACHE_LIMIT + 1
    /\ probe.out = "encoded"
    /\ Len(probe.embedding_cache) = CACHE_LIMIT + 1 - CACHE_EVICT
    /\ probe.embedding_cache[Len(probe.embedding_cache)] = probe.text

\* position of source s in first-seen order
first_seen(s) ==
    CHOOSE i \in 1..Len(probe.hits) :
        source_key(probe.hits[i]) = s
        /\ \A j \in 1..(i-1) : source_key(probe.hits[j]) # s

\* C28: with target size 1 (a name-phrase query) the one selected source is
\* the source of the hits with the highest aggregate score, document or web
\* alike, the first seen of those that tie
C28_TopAggregateSelected ==
    (probe.pc = "done" /\ probe.top_n = TOP_N_NAME) =>
        /\ Len(probe.sources) = 1
        /\ \A i \in 1..Len(probe.hits) :
              LET s == source_key(probe.hits[i])
                  best == probe.sources[1]
              IN  \/ sum_scores(probe.hits, s) < sum_scores(probe.hits, best)
                  \/ /\ sum_scores(probe.hits, s) = sum_scores(probe.hits, best)
                     /\ first_seen(best) <= first_seen(s)

\* ------------------------------------------------------------------------
\* Two raw fragments of the model's stream through the accumulation loop
\* (qa_core lines 285-307), over every pair of fragments of up to
\* MaxRawLen characters
\* ------------------------------------------------------------------------
MaxRawLen == 3

RawChars == {"a", "b", ",", " "}
RawFragments == UNION {[1..k -> RawChars] : k \in 1..MaxRawLen}

InitGlue ==
    /\ conversation_context = <<>>
    /\ LAST_TITLE = NoTitle
    /\ OMDB_CACHE = {}
    /\ upload_dir = {}
    /\ doc_collection = {}
    /\ web_collection = {}
    /\ background_tasks = <<>>
    /\ last = Returned("start", TRUE, 200)
    /\ stream = StreamIdle
    /\ cite = CiteIdle
    /\ inflight = NoneInFlight
    /\ \E f1 \in RawFragments, f2 \in RawFragments :
           probe = [pc |-> "ready", chunks |-> <<f1, f2>>, accum |-> <<>>]

\* lines 285-307 on the two fragments
consume_fragments ==
    /\ probe.pc = "ready"
    /\ probe' = [probe EXCEPT !.pc = "done",
                              !.accum = accumulate(probe.chunks, <<>>, 0, CAP_DEFAULT)]
    /\ UNCHANGED <<session, stores, last, stream, cite, inflight>>

NextGlue == consume_fragments

SpecGlue == InitGlue /\ [][NextGlue]_vars

\* the first fragment holds a word, the second starts with one, and the raw
\* stream has whitespace between the two fragments' texts
KeptApart(f1, f2) ==
    /\ ~skipped(f1) /\ ~skipped(f2)
    /\ \E i \in 1..Len(f1) : isalnum(f1[i])
    /\ isalnum(clean_model_chunk(f2)[1])
    /\ isspace(f1[Len(f1)]) \/ isspace(f2[1])

\* C29: when the raw stream has whitespace between the last word of a
\* fragment and the first word of the next, the accumulated text has
\* whitespace between them
C29_WordsKeptApart ==
    (probe.pc = "done" /\ KeptApart(probe.chunks[1], probe.chunks[2])) =>
        /\ Len(probe.accum) > Len(clean_model_chunk(probe.chunks[1]))
        /\ isspace(probe.accum[Len(clean_model_chunk(probe.chunks[1])) + 1])

\* ------------------------------------------------------------------------
\* One /ask request on its own (response.py lines 29-48, qa_core.py lines
\* 20-324): every question of the exploration, in either mode, on every
\* content of the two collections, with the LLM answering, breaking, silent
\* or delivering blank fragments only
\* ------------------------------------------------------------------------
\* a stream whose fragments all clean to the empty text
LlmBlank == [frags |-> <<<<" ">>, <<"\n", "\n">>>>, raises |-> FALSE, after |-> 0]

ReplyStreams == {LlmAnswers, LlmSilent, LlmBlank, LlmBreaks, LlmDown}
ReplyQuestions == Questions \cup {<<"who", "directed", "Inception", "?">>}

InitReply ==
    /\ conversation_context = <<>>
    /\ LAST_TITLE = NoTitle
    /\ OMDB_CACHE = {}
    /\ upload_dir = {}
    /\ doc_collection = {}
    /\ web_collection = {}
    /\ background_tasks = <<>>
    /\ last = Returned("start", TRUE, 200)
    /\ stream = StreamIdle
    /\ cite = CiteIdle
    /\ inflight = NoneInFlight
    /\ \E q \in ReplyQuestions, llm \in ReplyStreams, ent \in BOOLEAN :
       \E doc \in SUBSET Union({ChunksOfFile(f) : f \in DocFiles}) :
       \E web \in SUBSET Union({ChunksOfUrl(u) : u \in WebUrls}) :
           probe = [pc |-> "ready", question |-> q, entertainment_enabled |-> ent,
                    ext |-> [Nominal EXCEPT !.llm = llm], doc |-> doc, web |-> web,
                    runs |-> <<>>, body |-> <<>>]

\* what generate_streaming_response does for the request
responded(r) == probe' = [probe EXCEPT !.pc = "done", !.runs = r.runs, !.body = r.body]

respond ==
    /\ probe.pc = "ready"
    /\ responded(generate_streaming_response(probe.question,
                     probe.entertainment_enabled, <<>>, NoTitle, {},
                     probe.doc, probe.web, probe.ext))
    /\ UNCHANGED <<session, stores, last, stream, cite, inflight>>

NextReply == respond

SpecReply == InitReply /\ [][NextReply]_vars

\* C30: every call of answer_question_stream yields one fragment, which is
\* not empty, also when the LLM stream is empty or all its fragments clean to
\* the empty text; the response body is never empty
C30_AlwaysOneFragment ==
    probe.pc = "done" =>
        /\ probe.runs # <<>>
        /\ \A i \in 1..Len(probe.runs) : probe.runs[i].yielded.kind # "nothing"
        /\ probe.body # <<>>

====
